---- MODULE Spec2Model ----
(***************************************************************************)
(* Financial-intelligence core of the Financial Assistant platform:        *)
(* feature extraction, customer segmentation (src/ml/clustering.py),       *)
(* balance forecasting (src/ml/forecasting.py) and product recommendation  *)
(* (src/ml/recommendations.py), with the database rows and the files under *)
(* ml_models/ they read and write.                                         *)
(*                                                                         *)
(* Numbers are exact rationals [num, den] (den > 0, reduced); a standard   *)
(* deviation is kept as the square root of its rational variance.  Dates   *)
(* are day numbers; day 0 is a Monday.                                     *)
(***************************************************************************)
EXTENDS Integers, Sequences, FiniteSets, TLC

VARIABLES
    \* ---- database (sqlite:///./financial_assistant.db) ----
    role,              \* User.role, per user id
    transactions,      \* Transaction rows per user, in insertion order
    cluster_id,        \* User.cluster_id, committed value
    clusters,          \* ids of the committed rows of the clusters table
    \* ---- ml_models/cluster_model.joblib ----
    cluster_model_file,\* empty when the file is absent, else << the dumped bundle >>
    \* ---- one train_cluster_model call (its own session) ----
    train_pc,          \* "idle", "fitted", "updating", "returned", "raised"
    train_run,         \* number of train_cluster_model calls started so far
    user_ids,          \* user_ids list of the call
    cluster_labels,    \* labels returned by fit_predict, aligned with user_ids
    X_keys,            \* per row of X, the keys its values were listed from
    train_i,           \* position of the assignment loop in zip(user_ids, cluster_labels)
    pending,           \* session: user.cluster_id values set but not committed
    pending_clusters,  \* session: Cluster rows added but not committed
    train_result,      \* what the call returned, or the exception it raised
    \* ---- one predict_cluster call (its own session) ----
    pred_pc,           \* "idle", "predicted", "returned"
    pred_user,         \* the user_id argument
    pred_label,        \* kmeans.predict(...)[0]
    pred_keys,         \* keys of the feature dict built at predict time
    pred_result,       \* the cluster index the call returned
    pred_count,        \* number of predict_cluster calls started so far
    \* ---- a reader of the users table (GET /api/admin/users) ----
    read_view,         \* how the rows it read relate to the running training
    \* ---- history variables ----
    assign_run,        \* the training run whose commit last wrote the assignments
    expect_pre,        \* the assignments as they would be without the running training
    expect_post,       \* the assignments as the running training's labels make them
    \* ---- ml_models/forecast_user_{user_id}.pkl ----
    forecast_file,     \* per user: empty when absent, else << the pickled model >>
    \* ---- the BalanceForecasting service and one train_forecast_model call ----
    fc_model,          \* self.model: the series it was last fitted on (empty: unfitted)
    fc_pc,             \* "idle", "prepared", "fitted", "returned"
    fc_user,           \* the user_id argument
    daily_balance,     \* the local daily_balance of the call
    fc_result,         \* what the call returned
    \* ---- products table and the two files of the recommendation index ----
    products,          \* ids of the rows of the products table
    index_file,        \* ml_models/product_index.faiss: empty, or << index >>
    mapping_file,      \* ml_models/product_mapping.pkl: empty, or << mapping >>
    \* ---- one build_product_embeddings call ----
    build_pc,          \* "idle", "embedded", "index_written", "returned"
    build_count,       \* number of build_product_embeddings calls started so far
    product_ids,       \* the local product_ids, position by position
    build_result,      \* what the call returned
    \* ---- one get_recommendations call (another process than the build) ----
    rec_pc,            \* "idle", "index_loaded", "loaded", "returned"
    rec_index,         \* self.index as read from the file
    rec_mapping,       \* self.product_mapping as read from the file
    rec_args,          \* user_cluster, forecast_summary, top_k of the call
    rec_result,        \* the list returned, or the exception raised
    filtered_products, \* what _filter_products_by_rules returned to the call
    filtered_product_ids, \* the candidate set of the call (line 110)
    rec_search,        \* scores, indices as index.search returned them
    \* ---- history variable ----
    last_build,        \* the catalog read and the files written by the last completed build
    \* ---- one generate_forecast call ----
    gen_pc,            \* "idle", "loaded", "returned"
    gen_user,          \* the user_id argument
    gen_days,          \* the days argument
    gen_model,         \* the local model unpickled from the user's file
    gen_result,        \* what the call returned
    \* ---- feature extraction harness ----
    feat_in,           \* transaction list handed to extract_features
    feat_now,          \* the clock read by extract_features
    feat_out,          \* what extract_features returned (empty before the call)
    \* ---- a second train_forecast_model call on the same service object ----
    fcb_pc,            \* "idle", "prepared", "fitted", "returned"
    fcb_user,          \* the user_id argument
    fcb_daily_balance, \* the local daily_balance
    fcb_result,        \* what the call returned
    \* ---- one get_user_context request ----
    ctx_pc,            \* "idle", "forecast", "recommend", "returned"
    ctx_user,          \* current_user.id
    ctx_cluster_name,  \* the local cluster_name
    ctx_forecast,      \* the local forecast
    ctx_summary,       \* the local forecast_summary
    ctx_result         \* the response, or the exception that ended the request

dbVars    == << role, transactions, cluster_id, clusters >>
trainVars == << train_pc, train_run, user_ids, cluster_labels, X_keys, train_i,
                pending, pending_clusters, train_result >>
predVars  == << pred_pc, pred_user, pred_label, pred_keys, pred_result, pred_count >>
histVars  == << assign_run, expect_pre, expect_post >>
fcVars    == << forecast_file, fc_model, fc_pc, fc_user, daily_balance, fc_result >>
recVars   == << products, index_file, mapping_file, build_pc, build_count, product_ids,
                build_result, rec_pc, rec_index, rec_mapping, rec_args, rec_result,
                filtered_products, filtered_product_ids, rec_search, last_build >>
genVars   == << gen_pc, gen_user, gen_days, gen_model, gen_result >>
segVars   == << dbVars, cluster_model_file, trainVars, predVars, read_view, histVars >>
featVars == << feat_in, feat_now, feat_out >>
fcbVars  == << fcb_pc, fcb_user, fcb_daily_balance, fcb_result >>
ctxVars  == << ctx_pc, ctx_user, ctx_cluster_name, ctx_forecast, ctx_summary, ctx_result >>
callVars == << fcbVars, ctxVars >>
vars     == << segVars, fcVars, recVars, featVars, genVars, callVars >>

\* NULL in an integer column, and "no value yet" in an integer local
NULL == -1

\* ------------------------------------------------------------------ bounds
MaxUsers == 5          \* user ids are 1..MaxUsers
MaxTx    == 2          \* longest transaction list drawn for extract_features
MaxDate  == 9          \* transaction dates are days 0..MaxDate
MaxTrainRuns == 1      \* train_cluster_model calls in one behaviour
MaxPredicts  == 1      \* predict_cluster calls in one behaviour
MaxProducts  == 2      \* product ids are 1..MaxProducts
MaxBuilds    == 2      \* build_product_embeddings calls in one behaviour
MaxTopK      == 2      \* top_k arguments are 0..MaxTopK
MaxHorizon   == 2      \* days arguments of generate_forecast are 0..MaxHorizon

Users == 1..MaxUsers

\* ------------------------------------------------------------- arithmetic
RECURSIVE GCD(_, _)
GCD(a, b) == IF b = 0 THEN a ELSE GCD(b, a % b)

Abs(x) == IF x < 0 THEN -x ELSE x

\* the rational n/d, d # 0, in lowest terms with a positive denominator
Ratio(n, d) ==
    LET g == GCD(Abs(n), Abs(d))
        s == IF d < 0 THEN -1 ELSE 1
    IN  [num |-> s * (n \div g), den |-> s * (d \div g)]

Num(n) == [num |-> n, den |-> 1]

RECURSIVE SumSeq(_)
SumSeq(s) == IF s = << >> THEN 0 ELSE Head(s) + SumSeq(Tail(s))

RECURSIVE MaxSeq(_)
MaxSeq(s) == IF Len(s) = 1 THEN s[1]
             ELSE LET m == MaxSeq(Tail(s)) IN IF s[1] > m THEN s[1] ELSE m

Range(s) == { s[i] : i \in DOMAIN s }

\* --------------------------------------------------- transaction universe
TxCategories == {"Market", "Coffe", "Rent"}      \* "Rent" is outside the vocabulary
TxDays       == {0, 5, MaxDate}                  \* a Monday, a Saturday, a later day
TxDebits     == {0, 10, 30}
TxBalances   == {400, 1200}

TxUniverse ==
    [date : TxDays, category : TxCategories, debit : TxDebits,
     credit : {0}, balance : TxBalances, time : {0}]

RECURSIVE SeqsUpTo(_, _)
SeqsUpTo(S, n) ==
    IF n = 0 THEN { << >> }
    ELSE LET shorter == SeqsUpTo(S, n - 1)
         IN  shorter \cup { Append(s, x) : s \in { t \in shorter : Len(t) = n - 1 }, x \in S }

NowDays == {MaxDate, MaxDate + 3}

\* ------------------------------------------------------ feature extraction
\* the fixed category vocabulary, spelled as the code spells it
categories == << "Market", "Transport", "Coffe", "Restuarant", "Phone", "Health", "Learning" >>

\* f'spending_{cat.lower()}'
SpendingKey(cat) ==
    CASE cat = "Market"     -> "spending_market"
      [] cat = "Transport"  -> "spending_transport"
      [] cat = "Coffe"      -> "spending_coffe"
      [] cat = "Restuarant" -> "spending_restuarant"
      [] cat = "Phone"      -> "spending_phone"
      [] cat = "Health"     -> "spending_health"
      [] cat = "Learning"   -> "spending_learning"

\* a dict is the sequence of its (key, value) items in insertion order
Keys(d)   == [i \in DOMAIN d |-> d[i][1]]
Values(d) == [i \in DOMAIN d |-> d[i][2]]

\* datetime.weekday(): Monday is 0
Weekday(d) == d % 7

Debits(txs)   == [i \in DOMAIN txs |-> txs[i].debit]
Balances(txs) == [i \in DOMAIN txs |-> txs[i].balance]
Dates(txs)    == [i \in DOMAIN txs |-> txs[i].date]

\* df.groupby('category')['debit'].sum().get(cat, 0)
CategorySpending(txs, cat) ==
    SumSeq([i \in DOMAIN txs |-> IF txs[i].category = cat THEN txs[i].debit ELSE 0])

\* df['balance'].std(): sample standard deviation (ddof = 1)
BalanceStd(txs) ==
    LET n  == Len(txs)
        s  == SumSeq(Balances(txs))
        sq == SumSeq([i \in DOMAIN txs |-> txs[i].balance * txs[i].balance])
        v  == n * sq - s * s
    IN  IF v = 0 THEN Num(0) ELSE [sqrt_of |-> Ratio(v, n * (n - 1))]

\* a plausible slip: the recency sentinel of a user without transactions is 0
default_features_zero_recency ==
    << <<"recency", Num(0)>>, <<"frequency", Num(0)>>, <<"monetary", Num(0)>>,
       <<"avg_transaction", Num(0)>>, <<"balance_std", Num(0)>>,
       <<"weekday_ratio", Ratio(1, 2)>> >>
    \o [i \in 1..Len(categories) |-> <<SpendingKey(categories[i]), Num(0)>>]

_default_features ==
    << <<"recency", Num(365)>>, <<"frequency", Num(0)>>, <<"monetary", Num(0)>>,
       <<"avg_transaction", Num(0)>>, <<"balance_std", Num(0)>>,
       <<"weekday_ratio", Ratio(1, 2)>> >>
    \o [i \in 1..Len(categories) |-> <<SpendingKey(categories[i]), Num(0)>>]

\* lines 57-67: the share of each vocabulary category in the total debit
spending_profile(txs) ==
    LET total_spending == SumSeq(Debits(txs))
    IN  [i \in 1..Len(categories) |->
            << SpendingKey(categories[i]),
               IF total_spending > 0
               THEN Ratio(CategorySpending(txs, categories[i]), total_spending)
               ELSE Num(0) >>]

\* lines 52-55 and 69-82: recency, frequency, monetary and the behavioural
\* ratios, as the items 'recency' .. 'weekday_ratio' of the features dict
RfmAndRatios(txs, now) ==
    LET recency        == now - MaxSeq(Dates(txs))
        frequency      == Len(txs)
        monetary       == SumSeq(Debits(txs))
        weekday_spending ==
            SumSeq([i \in DOMAIN txs |-> IF Weekday(txs[i].date) < 5 THEN txs[i].debit ELSE 0])
        weekend_spending ==
            SumSeq([i \in DOMAIN txs |-> IF Weekday(txs[i].date) >= 5 THEN txs[i].debit ELSE 0])
        weekday_ratio ==
            IF weekday_spending + weekend_spending > 0
            THEN Ratio(weekday_spending, weekday_spending + weekend_spending)
            ELSE Ratio(1, 2)
        avg_transaction == IF Len(txs) > 0 THEN Ratio(monetary, Len(txs)) ELSE Num(0)
        balance_std     == IF Len(txs) > 1 THEN BalanceStd(txs) ELSE Num(0)
    IN  << <<"recency", Num(recency)>>, <<"frequency", Num(frequency)>>,
           <<"monetary", Num(monetary)>>, <<"avg_transaction", avg_transaction>>,
           <<"balance_std", balance_std>>, <<"weekday_ratio", weekday_ratio>> >>

\* a plausible slip: the category shares are put into the dict before the
\* average, the volatility and the weekday ratio
FeaturesOfReordered(txs, now) ==
    LET f == RfmAndRatios(txs, now)
    IN  SubSeq(f, 1, 3) \o spending_profile(txs) \o SubSeq(f, 4, 6)

\* lines 84-92, the features dict of a user with transactions
FeaturesOf(txs, now) ==
    RfmAndRatios(txs, now) \o spending_profile(txs)

extract_features(txs, now) ==
    IF txs = << >> THEN _default_features ELSE FeaturesOf(txs, now)

\* ------------------------------------------------------------ segmentation
n_clusters == 4        \* KMeans(n_clusters=4, random_state=42)
NoResult == [kind |-> "none"]
DefaultCluster == 3    \* "New/Infrequent Users"

\* a plausible slip: the segments are numbered from one
cluster_names_from_one == 1..n_clusters

cluster_names == 0..(n_clusters - 1)     \* keys of self.cluster_names

\* db.query(User).filter(User.role == "customer").all(), in id order
RECURSIVE IdsUpTo(_, _)
IdsUpTo(S, n) ==
    IF n = 0 THEN << >>
    ELSE IF n \in S THEN Append(IdsUpTo(S, n - 1), n) ELSE IdsUpTo(S, n - 1)

CustomerIds == IdsUpTo({ u \in Users : role[u] = "customer" }, MaxUsers)

Min(a, b) == IF a < b THEN a ELSE b

\* KMeans.fit_predict on the scaled rows of X.  Scaling is one-to-one on each
\* column that varies, so two rows coincide after scaling exactly when they
\* coincide before.  Coinciding rows share a label; the number of labels in
\* use is n_clusters, or the number of distinct rows when that is smaller.
\* Which rows share a cluster otherwise depends on the data: any such
\* labelling is allowed.
KMeansLabelings(X) ==
    { L \in [DOMAIN X -> cluster_names] :
        /\ \A i, j \in DOMAIN X : X[i] = X[j] => L[i] = L[j]
        /\ Cardinality(Range(L)) = Min(n_clusters, Cardinality(Range(X))) }

\* fit_predict raises ValueError when n_samples < n_clusters
KMeansRaises(X) == Len(X) < n_clusters

\* silhouette_score raises ValueError unless 2 <= n_labels <= n_samples - 1
SilhouetteRaises(L) ==
    LET k == Cardinality(Range(L))
    IN  ~ (2 <= k /\ k <= Len(L) - 1)

\* a plausible slip: each assignment is committed as it is made
StageAssignWriteThrough(tbl, pend, u, l) ==
    [tbl |-> [tbl EXCEPT ![u] = l], pend |-> pend]

\* the session after user.cluster_id = cluster_label: the new value is pending
\* in the session (autoflush=False) and reaches the table at db.commit()

StageAssign(tbl, pend, u, l) ==
    [tbl |-> tbl, pend |-> Append(pend, <<u, l>>)]

\* db.commit(): every pending assignment reaches the table in one transaction
\* a plausible slip: the commit sits inside the loop and the function returns
\* after its first turn, so only the first pending row is written
CommitSessionFirstOnly(tbl, pend) ==
    IF pend = << >> THEN tbl ELSE [tbl EXCEPT ![pend[1][1]] = pend[1][2]]

CommitSession(tbl, pend) ==
    [u \in Users |->
        IF \E i \in DOMAIN pend : pend[i][1] = u
        THEN pend[CHOOSE i \in DOMAIN pend :
                     /\ pend[i][1] = u
                     /\ \A j \in DOMAIN pend : pend[j][1] = u => j <= i][2]
        ELSE tbl[u]]

\* the table a training run leaves when each of its users carries its label
LabelledTable(tbl, ids, L) ==
    [u \in Users |-> IF \E i \in DOMAIN ids : ids[i] = u
                     THEN L[CHOOSE i \in DOMAIN ids : ids[i] = u]
                     ELSE tbl[u]]

\* a plausible slip: the emptiness check is left out
NoFeaturesUnchecked(features_list) == FALSE

\* line 124: if not features_list
NoFeatures(features_list) == features_list = << >>

\* lines 113-135: query the customers, extract their features, fit, score
TrainFit ==
    /\ train_pc = "idle"
    /\ train_run < MaxTrainRuns
    /\ \E now \in NowDays :
        LET ids   == CustomerIds
            feats == [i \in DOMAIN ids |-> extract_features(transactions[ids[i]], now)]
            features_list == [i \in DOMAIN ids |-> Values(feats[i])]
        IN
        /\ train_run' = train_run + 1
        /\ user_ids' = ids
        /\ X_keys' = [i \in DOMAIN ids |-> Keys(feats[i])]
        /\ expect_pre' = cluster_id
        /\ read_view' = "none"
        /\ IF NoFeatures(features_list)
           THEN /\ train_pc' = "returned"
                /\ train_result' = [kind |-> "error", error |-> "No customer data available"]
                /\ cluster_labels' = << >>
                /\ expect_post' = << >>
           ELSE IF KMeansRaises(features_list)
           THEN /\ train_pc' = "raised"
                /\ train_result' = [kind |-> "exception", type |-> "ValueError"]
                /\ cluster_labels' = << >>
                /\ expect_post' = << >>
           ELSE \E L \in KMeansLabelings(features_list) :
                /\ cluster_labels' = L
                /\ expect_post' = LabelledTable(cluster_id, ids, L)
                /\ IF SilhouetteRaises(L)
                   THEN /\ train_pc' = "raised"
                        /\ train_result' = [kind |-> "exception", type |-> "ValueError"]
                   ELSE /\ train_pc' = "fitted"
                        /\ train_result' = NoResult
    /\ UNCHANGED << dbVars, cluster_model_file, train_i, pending, pending_clusters,
                    predVars, assign_run, fcVars, recVars, featVars, genVars, callVars >>

\* lines 138-165: dump the bundle, then add the missing Cluster rows to the session
TrainDump ==
    /\ train_pc = "fitted"
    /\ \E now \in NowDays :
        cluster_model_file' =
            << [run           |-> train_run,
                feature_names |-> Keys(extract_features(transactions[user_ids[1]], now))] >>
    /\ pending_clusters' = cluster_names \ clusters
    /\ pending' = << >>
    /\ train_i' = 1
    /\ train_pc' = "updating"
    /\ UNCHANGED << dbVars, train_run, user_ids, cluster_labels, X_keys, train_result,
                    predVars, read_view, histVars, fcVars, recVars, featVars, genVars, callVars >>

\* lines 168-171: one turn of the loop over zip(user_ids, cluster_labels)
TrainAssign ==
    /\ train_pc = "updating"
    /\ train_i <= Len(user_ids)
    /\ LET r == StageAssign(cluster_id, pending, user_ids[train_i], cluster_labels[train_i])
       IN  /\ cluster_id' = r.tbl
           /\ pending' = r.pend
    /\ train_i' = train_i + 1
    /\ UNCHANGED << role, transactions, clusters, cluster_model_file, train_pc, train_run,
                    user_ids, cluster_labels, X_keys, pending_clusters, train_result,
                    predVars, read_view, histVars, fcVars, recVars, featVars, genVars, callVars >>

\* lines 173 and 148-152: db.commit() succeeds and the call returns its result
TrainCommit ==
    /\ train_pc = "updating"
    /\ train_i > Len(user_ids)
    /\ cluster_id' = CommitSession(cluster_id, pending)
    /\ clusters' = clusters \cup pending_clusters
    /\ pending' = << >>
    /\ pending_clusters' = {}
    /\ assign_run' = train_run
    /\ train_pc' = "returned"
    /\ train_result' = [kind       |-> "ok",
                        n_clusters |-> Cardinality(Range(cluster_labels)),
                        n_users    |-> Len(user_ids)]
    /\ UNCHANGED << role, transactions, cluster_model_file, train_run, user_ids,
                    cluster_labels, X_keys, train_i, predVars, read_view, expect_pre,
                    expect_post, fcVars, recVars, featVars, genVars, callVars >>

\* line 173: db.commit() raises (sqlite reports the database locked by another
\* writer); nothing of the session reaches the tables and the exception leaves
\* train_cluster_model, which has no handler
TrainCommitFails ==
    /\ train_pc = "updating"
    /\ train_i > Len(user_ids)
    /\ pending' = << >>
    /\ pending_clusters' = {}
    /\ train_pc' = "raised"
    /\ train_result' = [kind |-> "exception", type |-> "OperationalError"]
    /\ UNCHANGED << dbVars, cluster_model_file, train_run, user_ids, cluster_labels,
                    X_keys, train_i, predVars, read_view, histVars, fcVars, recVars, featVars, genVars, callVars >>

\* the caller has the result (or the exception); the service is called again later
TrainDone ==
    /\ train_pc \in {"returned", "raised"}
    /\ train_pc' = "idle"
    /\ user_ids' = << >>
    /\ cluster_labels' = << >>
    /\ X_keys' = << >>
    /\ train_i' = 0
    /\ train_result' = NoResult
    /\ expect_pre' = << >>
    /\ expect_post' = << >>
    /\ read_view' = "none"
    /\ UNCHANGED << dbVars, cluster_model_file, train_run, pending, pending_clusters,
                    predVars, assign_run, fcVars, recVars, featVars, genVars, callVars >>

\* a plausible slip: the default cluster is also stored as the user's assignment
PredictWithoutModelStores(tbl, u) ==
    [tbl |-> [tbl EXCEPT ![u] = DefaultCluster], result |-> DefaultCluster]

\* lines 199-201: joblib.load raised FileNotFoundError before anything was
\* written; the handler returns the default cluster
PredictWithoutModel(tbl, u) ==
    [tbl |-> tbl, result |-> DefaultCluster]

\* predict_cluster lines 177-189 and 199-201: load the bundle; without one,
\* return the default cluster
PredictLoad(u) ==
    /\ pred_pc = "idle"
    /\ pred_count < MaxPredicts
    /\ pred_count' = pred_count + 1
    /\ pred_user' = u
    /\ IF cluster_model_file = << >>
       THEN LET r == PredictWithoutModel(cluster_id, u)
            IN  /\ pred_pc' = "returned"
                /\ pred_result' = r.result
                /\ cluster_id' = r.tbl
                /\ pred_label' = NULL
                /\ pred_keys' = << >>
       ELSE \E now \in NowDays, l \in cluster_names :
            /\ pred_pc' = "predicted"
            /\ pred_label' = l
            /\ pred_keys' = Keys(extract_features(transactions[u], now))
            /\ pred_result' = NULL
            /\ UNCHANGED cluster_id
    /\ UNCHANGED << role, transactions, clusters, cluster_model_file, trainVars, read_view,
                    histVars, fcVars, recVars, featVars, genVars, callVars >>

\* predict_cluster lines 192-197: store the predicted cluster and return it
PredictCommit ==
    /\ pred_pc = "predicted"
    /\ cluster_id' = [cluster_id EXCEPT ![pred_user] = pred_label]
    /\ expect_pre' = IF expect_pre = << >> THEN << >>
                     ELSE [expect_pre EXCEPT ![pred_user] = pred_label]
    /\ expect_post' = IF expect_post # << >> /\ (train_pc = "returned" \/ pred_user \notin Range(user_ids))
                      THEN [expect_post EXCEPT ![pred_user] = pred_label]
                      ELSE expect_post
    /\ pred_pc' = "returned"
    /\ pred_result' = pred_label
    /\ UNCHANGED << role, transactions, clusters, cluster_model_file, trainVars,
                    pred_user, pred_label, pred_keys, pred_count, read_view, assign_run,
                    fcVars, recVars, featVars, genVars, callVars >>

PredictDone ==
    /\ pred_pc = "returned"
    /\ pred_pc' = "idle"
    /\ pred_user' = NULL
    /\ pred_label' = NULL
    /\ pred_keys' = << >>
    /\ pred_result' = NULL
    /\ UNCHANGED pred_count
    /\ UNCHANGED << dbVars, cluster_model_file, trainVars, read_view, histVars, fcVars, recVars, featVars, genVars, callVars >>

\* GET /api/admin/users while a training call is running: one SELECT over the
\* users table.  The rows read are all the pre-training values ("pre"), all
\* the post-training values ("post"), or a mixture ("mixed").
ReadAssignments ==
    /\ train_pc \in {"fitted", "updating", "returned"}
    /\ user_ids # << >>
    /\ read_view' = IF cluster_id = expect_pre THEN "pre"
                    ELSE IF cluster_id = expect_post THEN "post"
                    ELSE "mixed"
    /\ UNCHANGED << dbVars, cluster_model_file, trainVars, predVars, histVars, fcVars, recVars, featVars, genVars, callVars >>

\* -------------------------------------------------------------- forecasting
MinSeriesLen == 7      \* len(daily_balance) < 7

\* the calendar days on which the user has a transaction
TxDates(txs) == { txs[i].date : i \in DOMAIN txs }

SetMin(S) == CHOOSE x \in S : \A y \in S : x <= y
SetMax(S) == CHOOSE x \in S : \A y \in S : y <= x

\* groupby(...).first(): the balance of the day's earliest transaction
DayFirst(txs, d) ==
    LET I == { i \in DOMAIN txs : txs[i].date = d }
        l == CHOOSE i \in I : \A j \in I :
                 \/ txs[i].time < txs[j].time
                 \/ (txs[j].time = txs[i].time /\ i <= j)
    IN  txs[l].balance

\* df.groupby('date')['balance'].last() over the rows in order_by(Transaction.date)
\* order: the balance of the day's latest transaction
DayLast(txs, d) ==
    LET I == { i \in DOMAIN txs : txs[i].date = d }
        l == CHOOSE i \in I : \A j \in I :
                 \/ txs[j].time < txs[i].time
                 \/ (txs[j].time = txs[i].time /\ j <= i)
    IN  txs[l].balance

\* prepare_time_series: one row per calendar day from the first to the last
\* transaction date, days without a transaction filled from the day before;
\* empty stands for None
prepare_time_series(txs) ==
    IF txs = << >> THEN << >>
    ELSE LET D          == TxDates(txs)
             start_date == SetMin(D)
             end_date   == SetMax(D)
             ffill(d)   == DayLast(txs, SetMax({ e \in D : e <= d }))
         IN  [i \in 1..(end_date - start_date + 1) |->
                 [date |-> start_date + i - 1, balance |-> ffill(start_date + i - 1)]]

\* lines 54-57: build the series and refuse a short one
TrainForecastPrepare(u) ==
    /\ fc_pc = "idle"
    /\ fc_user' = u
    /\ LET db == prepare_time_series(transactions[u])
       IN  /\ daily_balance' = db
           /\ IF db = << >> \/ Len(db) < MinSeriesLen
              THEN /\ fc_pc' = "returned"
                   /\ fc_result' = [kind |-> "error", error |-> "Insufficient data for forecasting"]
              ELSE /\ fc_pc' = "prepared"
                   /\ fc_result' = NoResult
    /\ UNCHANGED << forecast_file, fc_model, segVars, recVars, featVars, genVars, callVars >>

\* lines 61-68: self.model.fit(ts)
TrainForecastFit ==
    /\ fc_pc = "prepared"
    /\ fc_model' = daily_balance
    /\ fc_pc' = "fitted"
    /\ UNCHANGED << forecast_file, fc_user, daily_balance, fc_result, segVars, recVars, featVars, genVars, callVars >>

\* lines 61-68 and 81-82: the conversion or the fit raises; the handler turns
\* the exception into an error result
TrainForecastFitRaises ==
    /\ fc_pc = "prepared"
    /\ fc_pc' = "returned"
    /\ fc_result' = [kind |-> "error", error |-> "Training failed"]
    /\ UNCHANGED << forecast_file, fc_model, fc_user, daily_balance, segVars, recVars, featVars, genVars, callVars >>

\* lines 71-79: pickle self.model into the user's file and report success
TrainForecastDump ==
    /\ fc_pc = "fitted"
    /\ forecast_file' = [forecast_file EXCEPT ![fc_user] = << [fitted_on |-> fc_model] >>]
    /\ fc_pc' = "returned"
    /\ fc_result' = [kind        |-> "ok",
                     status      |-> "success",
                     data_points |-> Len(daily_balance),
                     date_range  |-> << daily_balance[1].date,
                                        daily_balance[Len(daily_balance)].date >>]
    /\ UNCHANGED << fc_model, fc_user, daily_balance, segVars, recVars, featVars, genVars, callVars >>

\* the caller has the result; the service is called again later
TrainForecastDone ==
    /\ fc_pc = "returned"
    /\ fc_pc' = "idle"
    /\ fc_user' = NULL
    /\ daily_balance' = << >>
    /\ fc_result' = NoResult
    /\ UNCHANGED << forecast_file, fc_model, segVars, recVars, featVars, genVars, callVars >>

\* ---- the same method running a second time on the same BalanceForecasting
\* object: its locals are its own, self.model (fc_model) and the model
\* directory (forecast_file) are the ones the first call uses
\* lines 54-57
TrainForecastPrepareB(u) ==
    /\ fcb_pc = "idle"
    /\ fcb_user' = u
    /\ LET db == prepare_time_series(transactions[u])
       IN  /\ fcb_daily_balance' = db
           /\ IF db = << >> \/ Len(db) < MinSeriesLen
              THEN /\ fcb_pc' = "returned"
                   /\ fcb_result' = [kind |-> "error", error |-> "Insufficient data for forecasting"]
              ELSE /\ fcb_pc' = "prepared"
                   /\ fcb_result' = NoResult
    /\ UNCHANGED << fcVars, ctxVars, segVars, recVars, featVars, genVars >>

\* lines 61-68: self.model.fit(ts)
TrainForecastFitB ==
    /\ fcb_pc = "prepared"
    /\ fc_model' = fcb_daily_balance
    /\ fcb_pc' = "fitted"
    /\ UNCHANGED << forecast_file, fc_pc, fc_user, daily_balance, fc_result,
                    fcb_user, fcb_daily_balance, fcb_result, ctxVars,
                    segVars, recVars, featVars, genVars >>

\* lines 61-68 and 81-82
TrainForecastFitRaisesB ==
    /\ fcb_pc = "prepared"
    /\ fcb_pc' = "returned"
    /\ fcb_result' = [kind |-> "error", error |-> "Training failed"]
    /\ UNCHANGED << fcVars, fcb_user, fcb_daily_balance, ctxVars,
                    segVars, recVars, featVars, genVars >>

\* lines 71-79: pickle self.model, whatever it was last fitted on, into the
\* file of this call's user
TrainForecastDumpB ==
    /\ fcb_pc = "fitted"
    /\ forecast_file' = [forecast_file EXCEPT ![fcb_user] = << [fitted_on |-> fc_model] >>]
    /\ fcb_pc' = "returned"
    /\ fcb_result' = [kind        |-> "ok",
                      status      |-> "success",
                      data_points |-> Len(fcb_daily_balance),
                      date_range  |-> << fcb_daily_balance[1].date,
                                         fcb_daily_balance[Len(fcb_daily_balance)].date >>]
    /\ UNCHANGED << fc_model, fc_pc, fc_user, daily_balance, fc_result,
                    fcb_user, fcb_daily_balance, ctxVars,
                    segVars, recVars, featVars, genVars >>

TrainForecastDoneB ==
    /\ fcb_pc = "returned"
    /\ fcb_pc' = "idle"
    /\ fcb_user' = NULL
    /\ fcb_daily_balance' = << >>
    /\ fcb_result' = NoResult
    /\ UNCHANGED << fcVars, ctxVars, segVars, recVars, featVars, genVars >>

\* the values model.predict(n) may return for one day: what the fitted
\* smoothing model projects is not decided by this code
ForecastValues == {400, 700, 1200}

\* lines 108-112: pd.date_range(start = daily_balance.index.max() + 1 day,
\* periods = days, freq = 'D')
forecast_index_from_last_day(daily, days) ==
    [i \in 1..days |-> daily[Len(daily)].date + i - 1]

forecast_index(daily, days) ==
    [i \in 1..days |-> daily[Len(daily)].date + i]

\* line 117
trend_not_less(final_balance, current_balance) ==
    IF final_balance >= current_balance THEN "increasing" ELSE "decreasing"

trend(final_balance, current_balance) ==
    IF final_balance > current_balance THEN "increasing" ELSE "decreasing"

\* lines 153-160: 1-based position of the first projected value below the
\* threshold, NULL (None) when there is none
FirstBelow(values, threshold) ==
    LET I == { i \in DOMAIN values : values[i] < threshold }
    IN  IF I = {} THEN NULL ELSE SetMin(I)

AbsRatio(r) == [num |-> Abs(r.num), den |-> r.den]

\* a plausible slip: the threshold statements stand outside the test of the
\* trend, so an increasing forecast that dips reports them as well
_generate_forecast_summary_thresholds_always(current_balance, final_balance, values, tr) ==
    LET balance_change == final_balance - current_balance
        change_percent == IF current_balance # 0
                          THEN Ratio(balance_change * 100, current_balance)
                          ELSE Num(0)
        low_balance_days      == FirstBelow(values, 1000)
        critical_balance_days == FirstBelow(values, 500)
        closing == IF tr = "decreasing" THEN << >> ELSE << "positive" >>
        first   == IF tr = "decreasing"
                   THEN [trend |-> tr, by |-> Abs(balance_change),
                         percent |-> AbsRatio(change_percent)]
                   ELSE [trend |-> tr, by |-> balance_change, percent |-> change_percent]
    IN  first
        @@ (IF critical_balance_days # NULL
            THEN [note |-> "warning", below |-> 500, days |-> critical_balance_days,
                  parts |-> << "projected", "warning" >> \o closing]
            ELSE IF low_balance_days # NULL
            THEN [note |-> "caution", below |-> 1000, days |-> low_balance_days,
                  parts |-> << "projected", "caution" >> \o closing]
            ELSE IF tr = "decreasing"
            THEN [note |-> "stable", below |-> NULL, days |-> NULL,
                  parts |-> << "projected", "stable" >>]
            ELSE [note |-> "positive", below |-> NULL, days |-> NULL,
                  parts |-> << "projected", "positive" >>])

\* _generate_forecast_summary: the sentences of the text, by their content:
\* the direction, amount and percentage of the first sentence, and which
\* second sentence follows ("warning" names $500, "caution" names $1,000,
\* both with a number of days; "stable"; "positive"); parts is summary_parts,
\* the sentences in the order they are appended
_generate_forecast_summary(current_balance, final_balance, values, tr) ==
    LET balance_change == final_balance - current_balance
        change_percent == IF current_balance # 0
                          THEN Ratio(balance_change * 100, current_balance)
                          ELSE Num(0)
        low_balance_days      == FirstBelow(values, 1000)
        critical_balance_days == FirstBelow(values, 500)
    IN  IF tr = "decreasing"
        THEN [trend |-> tr, by |-> Abs(balance_change), percent |-> AbsRatio(change_percent)]
             @@ (IF critical_balance_days # NULL
                 THEN [note |-> "warning", below |-> 500, days |-> critical_balance_days,
                       parts |-> << "projected", "warning" >>]
                 ELSE IF low_balance_days # NULL
                 THEN [note |-> "caution", below |-> 1000, days |-> low_balance_days,
                       parts |-> << "projected", "caution" >>]
                 ELSE [note |-> "stable", below |-> NULL, days |-> NULL,
                       parts |-> << "projected", "stable" >>])
        ELSE [trend |-> tr, by |-> balance_change, percent |-> change_percent,
              note |-> "positive", below |-> NULL, days |-> NULL,
              parts |-> << "projected", "positive" >>]

\* a generate_forecast that answers a missing model by writing a default one
GenLoadWritesDefault(u, days) ==
    /\ gen_pc = "idle"
    /\ gen_user' = u
    /\ gen_days' = days
    /\ forecast_file' = [forecast_file EXCEPT ![u] =
                            IF @ = << >> THEN << [fitted_on |-> << >>] >> ELSE @]
    /\ gen_model' = forecast_file'[u]
    /\ gen_pc' = "loaded"
    /\ gen_result' = NoResult
    /\ UNCHANGED << segVars, fc_model, fc_pc, fc_user, daily_balance, fc_result,
                    recVars, featVars, callVars >>

\* lines 86-89 and 136-137: unpickle the user's model; without the file the
\* call returns the not-trained error
GenLoad(u, days) ==
    /\ gen_pc = "idle"
    /\ gen_user' = u
    /\ gen_days' = days
    /\ IF forecast_file[u] = << >>
       THEN /\ gen_pc' = "returned"
            /\ gen_model' = << >>
            /\ gen_result' = [kind |-> "error",
                              error |-> "Forecast model not trained for this user"]
       ELSE /\ gen_pc' = "loaded"
            /\ gen_model' = forecast_file[u]
            /\ gen_result' = NoResult
    /\ UNCHANGED << segVars, fcVars, recVars, featVars, callVars >>

\* lines 92-134 and 138-139: read the series, predict, index the forecast by
\* the days after the last observed one, classify and summarise.  With
\* days <= 0 there is no last projected value (iloc[-1] raises) and the
\* handler returns the generation-failed error
GenForecast ==
    /\ gen_pc = "loaded"
    /\ LET daily == prepare_time_series(transactions[gen_user])
       IN  IF daily = << >>
           THEN gen_result' = [kind |-> "error", error |-> "No transaction data available"]
           ELSE IF gen_days <= 0
           THEN gen_result' = [kind |-> "error", error |-> "Forecast generation failed"]
           ELSE \E values \in [1..gen_days -> ForecastValues] :
                  LET current_balance == daily[Len(daily)].balance
                      final_balance   == values[gen_days]
                      tr              == trend(final_balance, current_balance)
                  IN  gen_result' =
                          [kind              |-> "ok",
                           dates             |-> forecast_index(daily, gen_days),
                           values            |-> values,
                           current_balance   |-> current_balance,
                           predicted_balance |-> final_balance,
                           trend             |-> tr,
                           summary           |-> _generate_forecast_summary(
                                                    current_balance, final_balance, values, tr)]
    /\ gen_pc' = "returned"
    /\ UNCHANGED << gen_user, gen_days, gen_model, segVars, fcVars, recVars, featVars, callVars >>

\* the caller has the result; the service is called again later
GenDone ==
    /\ gen_pc = "returned"
    /\ gen_pc' = "idle"
    /\ gen_user' = NULL
    /\ gen_days' = NULL
    /\ gen_model' = << >>
    /\ gen_result' = NoResult
    /\ UNCHANGED << segVars, fcVars, recVars, featVars, callVars >>

\* ----------------------------------------------------------- recommendation
ProductIds == 1..MaxProducts

\* rows as create_sample_products writes them, and (the fourth) a row without
\* tags and target_cluster; tags holds the rule keywords that occur in the
\* tags string
ProductRows ==
    << [name |-> "Basic Savings Account",
        tags |-> {"savings", "low-fee", "conservative"},
        target_cluster |-> "frugal savers"],
       [name |-> "Rewards Credit Card",
        tags |-> {"rewards", "credit", "premium", "high-limit"},
        target_cluster |-> "high-value transactors"],
       [name |-> "Budget Tracker App",
        tags |-> {"budgeting"},
        target_cluster |-> "average spenders"],
       [name |-> "Plain Account",
        tags |-> {},
        target_cluster |-> ""],
       [name |-> "Investment Portfolio",
        tags |-> {"investment"},
        target_cluster |-> "high-value transactors"] >>

Product(id) == ProductRows[((id - 1) % Len(ProductRows)) + 1]

\* str.lower() of the segment names that reach get_recommendations
Lower(user_cluster) ==
    CASE user_cluster = "Frugal Savers"          -> "frugal savers"
      [] user_cluster = "Average Spenders"       -> "average spenders"
      [] user_cluster = "High-Value Transactors" -> "high-value transactors"
      [] user_cluster = "New/Infrequent Users"   -> "new/infrequent users"
      [] user_cluster = "Unknown"                -> "unknown"

SegmentNames ==
    {"Frugal Savers", "Average Spenders", "High-Value Transactors",
     "New/Infrequent Users", "Unknown"}

\* a forecast summary is the set of rule keywords that occur in its lower-cased
\* text: "No forecast available"; a decreasing forecast with the warning of a
\* drop below $500; one with the caution of a drop below $1,000; a decreasing
\* forecast that "should remain stable above $1,000"; an increasing
\* forecast; "stable, positive outlook"
Summaries ==
    { {},
      {"decreasing", "drop", "low", "warning"},
      {"decreasing", "drop", "low"},
      {"decreasing", "stable"},
      {"increasing", "positive"},
      {"stable", "positive"} }

\* the surplus branch testing the tags of the credit branch
IncludeSurplusByCreditTags(id, user_cluster, forecast_summary) ==
    LET tags         == Product(id).tags
        needs_credit == forecast_summary \cap {"decreasing", "drop", "low", "warning"} # {}
        has_surplus  == forecast_summary \cap {"increasing", "positive", "stable"} # {}
    IN  \/ (needs_credit \/ has_surplus) /\ tags \cap {"credit", "loan", "budgeting"} # {}
        \/ user_cluster = "Frugal Savers"
              /\ tags \cap {"low-fee", "savings", "conservative"} # {}
        \/ user_cluster = "High-Value Transactors"
              /\ tags \cap {"premium", "rewards", "high-limit"} # {}
        \/ user_cluster = "Average Spenders"
              /\ tags \cap {"standard", "balanced", "everyday"} # {}
        \/ Product(id).target_cluster # ""
              /\ Lower(user_cluster) = Product(id).target_cluster

\* the two forecast signals tested independently (`if`, not `elif`)
IncludeIndependent(id, user_cluster, forecast_summary) ==
    LET tags         == Product(id).tags
        needs_credit == forecast_summary \cap {"decreasing", "drop", "low", "warning"} # {}
        has_surplus  == forecast_summary \cap {"increasing", "positive", "stable"} # {}
    IN  \/ needs_credit /\ tags \cap {"credit", "loan", "budgeting"} # {}
        \/ has_surplus /\ tags \cap {"investment", "savings", "high-yield"} # {}
        \/ user_cluster = "Frugal Savers"
              /\ tags \cap {"low-fee", "savings", "conservative"} # {}
        \/ user_cluster = "High-Value Transactors"
              /\ tags \cap {"premium", "rewards", "high-limit"} # {}
        \/ user_cluster = "Average Spenders"
              /\ tags \cap {"standard", "balanced", "everyday"} # {}
        \/ Product(id).target_cluster # ""
              /\ Lower(user_cluster) = Product(id).target_cluster

\* _filter_products_by_rules, the include flag of one product
Include(id, user_cluster, forecast_summary) ==
    LET tags         == Product(id).tags
        needs_credit == forecast_summary \cap {"decreasing", "drop", "low", "warning"} # {}
        has_surplus  == forecast_summary \cap {"increasing", "positive", "stable"} # {}
        by_forecast  ==
            IF needs_credit THEN tags \cap {"credit", "loan", "budgeting"} # {}
            ELSE IF has_surplus THEN tags \cap {"investment", "savings", "high-yield"} # {}
            ELSE FALSE
        by_cluster   ==
            IF user_cluster = "Frugal Savers"
            THEN tags \cap {"low-fee", "savings", "conservative"} # {}
            ELSE IF user_cluster = "High-Value Transactors"
            THEN tags \cap {"premium", "rewards", "high-limit"} # {}
            ELSE IF user_cluster = "Average Spenders"
            THEN tags \cap {"standard", "balanced", "everyday"} # {}
            ELSE FALSE
        by_target    ==
            /\ Product(id).target_cluster # ""
            /\ Lower(user_cluster) = Product(id).target_cluster
    IN  by_forecast \/ by_cluster \/ by_target

_filter_products_by_rules(prods, user_cluster, forecast_summary) ==
    { id \in prods : Include(id, user_cluster, forecast_summary) }

\* the filter's result used as it is, without lines 96-97
FilteredProductIdsNoFallback(prods, user_cluster, forecast_summary) ==
    _filter_products_by_rules(prods, user_cluster, forecast_summary)

\* lines 91-97 and 110: the ids a result may contain
FilteredProductIds(prods, user_cluster, forecast_summary) ==
    LET filtered == _filter_products_by_rules(prods, user_cluster, forecast_summary)
    IN  IF filtered = {} THEN prods ELSE filtered

\* index.search(query, k): the k best positions (0-based) of the index in
\* descending score, -1 where the index has fewer than k vectors.  The scores
\* depend on the embeddings: any order of the positions is allowed.
Rankings(ntotal) ==
    { r \in [1..ntotal -> 0..(ntotal - 1)] : \A i, j \in 1..ntotal : r[i] = r[j] => i = j }

SearchResult(ranking, k) ==
    [i \in 1..k |-> IF i <= Len(ranking) THEN ranking[i] ELSE -1]

\* the scores of a search result: descending with the rank, the least float
\* (here -1) on the padding
SearchScores(indices) ==
    [i \in DOMAIN indices |-> IF indices[i] = -1 THEN -1 ELSE Len(indices) - i]

\* lines 113-133: walk the ranked positions; a position that is not a key of
\* product_mapping raises KeyError
RECURSIVE Walk(_, _, _, _, _)
Walk(indices, mapping, allowed, top_k, recommendations) ==
    IF indices = << >> THEN [kind |-> "ok", items |-> recommendations]
    ELSE LET idx == Head(indices)
         IN  IF idx = -1
             THEN Walk(Tail(indices), mapping, allowed, top_k, recommendations)
             ELSE IF idx + 1 \notin DOMAIN mapping
             THEN [kind |-> "exception", items |-> << >>]
             ELSE IF mapping[idx + 1] \in allowed
             THEN LET recs == Append(recommendations, mapping[idx + 1])
                  IN  IF Len(recs) >= top_k
                      THEN [kind |-> "ok", items |-> recs]
                      ELSE Walk(Tail(indices), mapping, allowed, top_k, recs)
             ELSE Walk(Tail(indices), mapping, allowed, top_k, recommendations)

\* db.query(Product).all(), in id order
ProductIdList(prods) == IdsUpTo(prods, MaxProducts)

Reverse(s) == [i \in 1..Len(s) |-> s[Len(s) + 1 - i]]

\* a build that reads the rows in another order every second time
BuildEmbedAlternatingOrder ==
    /\ build_pc = "idle"
    /\ build_count < MaxBuilds
    /\ build_count' = build_count + 1
    /\ IF products = {}
       THEN /\ build_pc' = "returned"
            /\ build_result' = [kind |-> "error", error |-> "No products available"]
            /\ product_ids' = << >>
       ELSE /\ build_pc' = "embedded"
            /\ build_result' = NoResult
            /\ product_ids' = IF build_count % 2 = 0 THEN ProductIdList(products)
                               ELSE Reverse(ProductIdList(products))
    /\ UNCHANGED << filtered_product_ids, rec_search, last_build, products, index_file,
                    mapping_file, rec_pc, rec_index, rec_mapping, rec_args,
                    filtered_products, rec_result, segVars, fcVars, featVars, genVars, callVars >>

\* a build that removes the stale files when it finds the catalog empty
BuildEmbedClearsFiles ==
    /\ build_pc = "idle"
    /\ build_count < MaxBuilds
    /\ build_count' = build_count + 1
    /\ IF products = {}
       THEN /\ build_pc' = "returned"
            /\ build_result' = [kind |-> "error", error |-> "No products available"]
            /\ product_ids' = << >>
            /\ index_file' = << >>
            /\ mapping_file' = << >>
       ELSE /\ build_pc' = "embedded"
            /\ build_result' = NoResult
            /\ product_ids' = ProductIdList(products)
            /\ UNCHANGED << index_file, mapping_file >>
    /\ UNCHANGED << filtered_product_ids, rec_search, last_build, products, rec_pc, rec_index, rec_mapping,
                    rec_args, filtered_products, rec_result, segVars, fcVars, featVars, genVars, callVars >>

\* lines 25-55: read the catalog, embed the texts, build index and mapping in memory
BuildEmbed ==
    /\ build_pc = "idle"
    /\ build_count < MaxBuilds
    /\ build_count' = build_count + 1
    /\ IF products = {}
       THEN /\ build_pc' = "returned"
            /\ build_result' = [kind |-> "error", error |-> "No products available"]
            /\ product_ids' = << >>
       ELSE /\ build_pc' = "embedded"
            /\ build_result' = NoResult
            /\ product_ids' = ProductIdList(products)
    /\ UNCHANGED << filtered_product_ids, rec_search, last_build, products, index_file, mapping_file, rec_pc, rec_index, rec_mapping,
                    rec_args, filtered_products, rec_result, segVars, fcVars, featVars, genVars, callVars >>

\* line 59: faiss.write_index(self.index, "ml_models/product_index.faiss")
BuildWriteIndex ==
    /\ build_pc = "embedded"
    /\ index_file' = << [ids |-> product_ids] >>
    /\ build_pc' = "index_written"
    /\ UNCHANGED << filtered_product_ids, rec_search, last_build, products, mapping_file, build_count, product_ids, build_result,
                    rec_pc, rec_index, rec_mapping, rec_args, filtered_products, rec_result,
                    segVars, fcVars, featVars, genVars, callVars >>

\* lines 61-68: pickle.dump(self.product_mapping, f) and the success result
BuildWriteMapping ==
    /\ build_pc = "index_written"
    /\ mapping_file' = << [map |-> product_ids] >>
    /\ last_build' = << [catalog |-> Range(product_ids),
                         index |-> index_file, mapping |-> mapping_file'] >>
    /\ build_pc' = "returned"
    /\ build_result' = [kind |-> "ok", status |-> "success", n_products |-> Len(product_ids)]
    /\ UNCHANGED << filtered_product_ids, rec_search, products, index_file, build_count, product_ids,
                    rec_pc, rec_index, rec_mapping, rec_args, filtered_products, rec_result,
                    segVars, fcVars, featVars, genVars, callVars >>

BuildDone ==
    /\ build_pc = "returned"
    /\ build_pc' = "idle"
    /\ product_ids' = << >>
    /\ build_result' = NoResult
    /\ UNCHANGED << filtered_product_ids, rec_search, last_build, products, index_file, mapping_file, build_count,
                    rec_pc, rec_index, rec_mapping, rec_args, filtered_products, rec_result,
                    segVars, fcVars, featVars, genVars, callVars >>

NoArgs == [user_cluster |-> "", forecast_summary |-> {}, top_k |-> 0]

\* line 81: read the index file.  Without the file faiss.read_index raises
\* RuntimeError (faiss reports every I/O failure as RuntimeError), which
\* `except FileNotFoundError` on line 84 does not catch: the call raises
RecLoadIndex ==
    /\ rec_pc = "idle"
    /\ IF index_file = << >>
       THEN /\ rec_pc' = "returned"
            /\ rec_result' = [kind |-> "exception", items |-> << >>]
            /\ rec_index' = << >>
       ELSE /\ rec_pc' = "index_loaded"
            /\ rec_result' = NoResult
            /\ rec_index' = index_file
    /\ UNCHANGED << filtered_product_ids, rec_search, last_build, products, index_file, mapping_file, build_pc, build_count, product_ids,
                    build_result, rec_mapping, rec_args, filtered_products, segVars, fcVars, featVars, genVars, callVars >>

\* lines 82-85: read the mapping file; without it return []
RecLoadMapping ==
    /\ rec_pc = "index_loaded"
    /\ IF mapping_file = << >>
       THEN /\ rec_pc' = "returned"
            /\ rec_result' = [kind |-> "ok", items |-> << >>]
            /\ rec_mapping' = << >>
       ELSE /\ rec_pc' = "loaded"
            /\ rec_result' = NoResult
            /\ rec_mapping' = mapping_file
    /\ UNCHANGED << filtered_product_ids, rec_search, last_build, products, index_file, mapping_file, build_pc, build_count, product_ids,
                    build_result, rec_index, rec_args, filtered_products, segVars, fcVars, featVars, genVars, callVars >>

\* lines 88-135: filter the catalog, search the index, collect the result
RecSearchWith(user_cluster, forecast_summary, top_k) ==
    /\ rec_pc = "loaded"
    /\ \E ranking \in Rankings(Len(rec_index[1].ids)) :
        LET allowed == FilteredProductIds(products, user_cluster, forecast_summary)
            indices == SearchResult(ranking, Len(rec_mapping[1].map))
        IN  /\ rec_args' = [user_cluster |-> user_cluster,
                            forecast_summary |-> forecast_summary, top_k |-> top_k]
            /\ filtered_products' =
                   _filter_products_by_rules(products, user_cluster, forecast_summary)
            /\ filtered_product_ids' = allowed
            /\ rec_search' = [i \in DOMAIN indices |->
                                 [idx |-> indices[i], score |-> SearchScores(indices)[i]]]
            /\ rec_result' = Walk(indices, rec_mapping[1].map, allowed, top_k, << >>)
    /\ rec_pc' = "returned"
    /\ UNCHANGED << last_build, products, index_file, mapping_file, build_pc, build_count,
                    product_ids, build_result, rec_index, rec_mapping,
                    segVars, fcVars, featVars, genVars, callVars >>

\* a call with any segment name, summary and top_k
RecSearch ==
    \E user_cluster \in SegmentNames, forecast_summary \in Summaries, top_k \in 0..MaxTopK :
        RecSearchWith(user_cluster, forecast_summary, top_k)

RecDone ==
    /\ rec_pc = "returned"
    /\ rec_pc' = "idle"
    /\ rec_index' = << >>
    /\ rec_mapping' = << >>
    /\ rec_args' = NoArgs
    /\ filtered_products' = {}
    /\ filtered_product_ids' = {}
    /\ rec_search' = << >>
    /\ rec_result' = NoResult
    /\ UNCHANGED << last_build, products, index_file, mapping_file, build_pc, build_count, product_ids,
                    build_result, segVars, fcVars, featVars, genVars, callVars >>

\* the catalog is maintained outside the core: a product row is added or deleted
AddProduct(id) ==
    /\ id \notin products
    /\ products' = products \cup {id}
    /\ UNCHANGED << filtered_product_ids, rec_search, last_build, index_file, mapping_file, build_pc, build_count, product_ids,
                    build_result, rec_pc, rec_index, rec_mapping, rec_args, filtered_products, rec_result,
                    segVars, fcVars, featVars, genVars, callVars >>

RemoveProduct(id) ==
    /\ id \in products
    /\ products' = products \ {id}
    /\ UNCHANGED << filtered_product_ids, rec_search, last_build, index_file, mapping_file, build_pc, build_count, product_ids,
                    build_result, rec_pc, rec_index, rec_mapping, rec_args, filtered_products, rec_result,
                    segVars, fcVars, featVars, genVars, callVars >>

\* ------------------------------------------------- extract_features harness
InitDb ==
    /\ role = [u \in Users |-> "customer"]
    /\ transactions = [u \in Users |-> << >>]
    /\ cluster_id = [u \in Users |-> NULL]
    /\ clusters = {}

InitSegIdle ==
    /\ cluster_model_file = << >>
    /\ train_pc = "idle"
    /\ train_run = 0
    /\ user_ids = << >>
    /\ cluster_labels = << >>
    /\ X_keys = << >>
    /\ train_i = 0
    /\ pending = << >>
    /\ pending_clusters = {}
    /\ train_result = NoResult
    /\ pred_pc = "idle"
    /\ pred_user = NULL
    /\ pred_label = NULL
    /\ pred_keys = << >>
    /\ pred_result = NULL
    /\ pred_count = 0
    /\ read_view = "none"
    /\ assign_run = 0
    /\ expect_pre = << >>
    /\ expect_post = << >>

\* the transaction histories drawn for the customers of a segmentation run:
\* none, one purchase, one other purchase, both
SegTx1 == [date |-> 0, category |-> "Market", debit |-> 30, credit |-> 0, balance |-> 1200, time |-> 0]
SegTx2 == [date |-> 5, category |-> "Rent", debit |-> 10, credit |-> 0, balance |-> 400, time |-> 0]
SegTxLists == << << >>, << SegTx1 >>, << SegTx2 >>, << SegTx1, SegTx2 >> >>

\* users 1..n are customers, the others administrators (who have no
\* transactions: ingest_transaction_data loads them for customers only);
\* the customers share k different histories in turn, k = 1 making them all
\* alike
InitSegDb ==
    /\ \E n \in 0..MaxUsers :
          role = [u \in Users |-> IF u <= n THEN "customer" ELSE "admin"]
    /\ \E k \in 1..Len(SegTxLists) :
          transactions = [u \in Users |-> IF role[u] = "customer"
                                          THEN SegTxLists[((u - 1) % k) + 1]
                                          ELSE << >>]
    /\ cluster_id = [u \in Users |-> NULL]
    /\ clusters = {}

InitFcIdle ==
    /\ forecast_file = [u \in Users |-> << >>]
    /\ fc_model = << >>
    /\ fc_pc = "idle"
    /\ fc_user = NULL
    /\ daily_balance = << >>
    /\ fc_result = NoResult

\* the balance history of a user who had transactions on the days of D, entered
\* latest day first; on even days there are two transactions, the later one
\* entered first
BalanceOn(d) == 1300 - 100 * d

RECURSIVE HistoryOf(_)
HistoryOf(D) ==
    IF D = {} THEN << >>
    ELSE LET d    == SetMax(D)
             tx(b, t) == [date |-> d, category |-> "Market", debit |-> 10, credit |-> 0,
                          balance |-> b, time |-> t]
         IN  (IF d % 2 = 0 THEN << tx(BalanceOn(d), 1), tx(BalanceOn(d) + 50, 0) >>
                           ELSE << tx(BalanceOn(d), 0) >>)
             \o HistoryOf(D \ {d})

FcUsers == {1, 2}

\* user 1 has transactions on any set of days, user 2 on none or on every day
InitFcDb ==
    /\ role = [u \in Users |-> "customer"]
    /\ \E D1 \in SUBSET (0..MaxDate), D2 \in { {}, 0..MaxDate } :
          transactions = [u \in Users |-> IF u = 1 THEN HistoryOf(D1)
                                          ELSE IF u = 2 THEN HistoryOf(D2)
                                          ELSE << >>]
    /\ cluster_id = [u \in Users |-> NULL]
    /\ clusters = {}

InitRecIdle ==
    /\ products = {}
    /\ index_file = << >>
    /\ mapping_file = << >>
    /\ build_pc = "idle"
    /\ build_count = 0
    /\ product_ids = << >>
    /\ build_result = NoResult
    /\ rec_pc = "idle"
    /\ rec_index = << >>
    /\ rec_mapping = << >>
    /\ rec_args = NoArgs
    /\ rec_result = NoResult
    /\ filtered_products = {}
    /\ filtered_product_ids = {}
    /\ rec_search = << >>
    /\ last_build = << >>

InitCallIdle ==
    /\ fcb_pc = "idle"
    /\ fcb_user = NULL
    /\ fcb_daily_balance = << >>
    /\ fcb_result = NoResult
    /\ ctx_pc = "idle"
    /\ ctx_user = NULL
    /\ ctx_cluster_name = ""
    /\ ctx_forecast = NoResult
    /\ ctx_summary = NoResult
    /\ ctx_result = NoResult

InitGenIdle ==
    /\ gen_pc = "idle"
    /\ gen_user = NULL
    /\ gen_days = NULL
    /\ gen_model = << >>
    /\ gen_result = NoResult

InitFeatIdle ==
    /\ feat_in = << >>
    /\ feat_now = MaxDate
    /\ feat_out = << >>

InitFeat ==
    /\ InitDb
    /\ InitSegIdle
    /\ InitFcIdle
    /\ InitRecIdle
    /\ InitGenIdle
    /\ InitCallIdle
    /\ feat_in \in SeqsUpTo(TxUniverse, MaxTx)
    /\ feat_now \in NowDays
    /\ feat_out = << >>

ExtractFeatures ==
    /\ feat_out = << >>
    /\ feat_out' = extract_features(feat_in, feat_now)
    /\ UNCHANGED << feat_in, feat_now, segVars, fcVars, recVars, genVars, callVars >>

NextFeat == ExtractFeatures

SpecFeat == InitFeat /\ [][NextFeat]_vars

InitSeg ==
    /\ InitSegDb
    /\ InitSegIdle
    /\ InitFcIdle
    /\ InitRecIdle
    /\ InitFeatIdle
    /\ InitGenIdle
    /\ InitCallIdle

NextSeg ==
    \/ TrainFit
    \/ TrainDump
    \/ TrainAssign
    \/ TrainCommit
    \/ TrainCommitFails
    \/ TrainDone
    \/ \E u \in Users : PredictLoad(u)
    \/ PredictCommit
    \/ PredictDone
    \/ ReadAssignments

SpecSeg == InitSeg /\ [][NextSeg]_vars

InitFc ==
    /\ InitFcDb
    /\ InitSegIdle
    /\ InitFcIdle
    /\ InitRecIdle
    /\ InitFeatIdle
    /\ InitGenIdle
    /\ InitCallIdle

NextFc ==
    \/ \E u \in FcUsers : TrainForecastPrepare(u)
    \/ TrainForecastFit
    \/ TrainForecastFitRaises
    \/ TrainForecastDump
    \/ TrainForecastDone

SpecFc == InitFc /\ [][NextFc]_vars

\* ------------------------------------------ generate_forecast with training
\* the days on which the forecast customer has transactions at the start:
\* none, two days less than a week apart, the last seven days
GenHistories == { {}, {0, 5}, (MaxDate - 6)..MaxDate }

\* user 1 has one of the histories above, user 2 a week
InitGenDb ==
    /\ role = [u \in Users |-> "customer"]
    /\ \E D1 \in GenHistories, D2 \in { 0..6 } :
          transactions = [u \in Users |-> IF u = 1 THEN HistoryOf(D1)
                                          ELSE IF u = 2 THEN HistoryOf(D2)
                                          ELSE << >>]
    /\ cluster_id = [u \in Users |-> NULL]
    /\ clusters = {}

\* ingest_transaction_data: transactions of the next day are loaded for a user
AddTransaction(u) ==
    /\ LET D == TxDates(transactions[u])
           d == IF D = {} THEN 0 ELSE SetMax(D) + 1
       IN  /\ d <= MaxDate
           /\ transactions' = [transactions EXCEPT ![u] = HistoryOf(D \cup {d})]
    /\ UNCHANGED << role, cluster_id, clusters, cluster_model_file, trainVars, predVars,
                    read_view, histVars, fcVars, recVars, featVars, genVars, callVars >>

InitGen ==
    /\ InitGenDb
    /\ InitSegIdle
    /\ InitFcIdle
    /\ InitRecIdle
    /\ InitFeatIdle
    /\ InitGenIdle
    /\ InitCallIdle

\* forecasts are asked for both users, a model is trained for the first only
NextGen ==
    \/ TrainForecastPrepare(1)
    \/ TrainForecastFit
    \/ TrainForecastFitRaises
    \/ TrainForecastDump
    \/ TrainForecastDone
    \/ \E u \in FcUsers, days \in 0..MaxHorizon : GenLoad(u, days)
    \/ GenForecast
    \/ GenDone
    \/ AddTransaction(1)

SpecGen == InitGen /\ [][NextGen]_vars

\* two train_forecast_model calls on the one forecasting_service, the first
\* for user 1 and the second for user 2, their statements interleaved
NextFcPair ==
    \/ TrainForecastPrepare(1)
    \/ TrainForecastFit
    \/ TrainForecastFitRaises
    \/ TrainForecastDump
    \/ TrainForecastDone
    \/ TrainForecastPrepareB(2)
    \/ TrainForecastFitB
    \/ TrainForecastFitRaisesB
    \/ TrainForecastDumpB
    \/ TrainForecastDoneB

SpecFcPair == InitGen /\ [][NextFcPair]_vars

InitRec ==
    /\ InitDb
    /\ InitSegIdle
    /\ InitFcIdle
    /\ InitRecIdle
    /\ InitFeatIdle
    /\ InitGenIdle
    /\ InitCallIdle

NextRec ==
    \/ BuildEmbed
    \/ BuildWriteIndex
    \/ BuildWriteMapping
    \/ BuildDone
    \/ RecLoadIndex
    \/ RecLoadMapping
    \/ RecSearch
    \/ RecDone
    \/ \E id \in ProductIds : AddProduct(id)
    \/ \E id \in ProductIds : RemoveProduct(id)

SpecRec == InitRec /\ [][NextRec]_vars

\* ------------------------------------- build_product_embeddings on its own
\* the admin rebuilds the index while the catalog is maintained, no
\* recommendation being served
NextBuild ==
    \/ BuildEmbed
    \/ BuildWriteIndex
    \/ BuildWriteMapping
    \/ BuildDone
    \/ \E id \in ProductIds : AddProduct(id)
    \/ \E id \in ProductIds : RemoveProduct(id)

SpecBuild == InitRec /\ [][NextBuild]_vars

\* -------------------------------------- recommendation, one call at a time
\* no build_product_embeddings or get_recommendations call is running
RecQuiet == build_pc = "idle" /\ rec_pc = "idle"

\* builds, recommendations and catalog changes one after the other
NextRecSerial ==
    \/ RecQuiet /\ BuildEmbed
    \/ BuildWriteIndex
    \/ BuildWriteMapping
    \/ BuildDone
    \/ RecQuiet /\ RecLoadIndex
    \/ RecLoadMapping
    \/ RecSearch
    \/ RecDone
    \/ RecQuiet /\ \E id \in ProductIds : AddProduct(id)
    \/ RecQuiet /\ \E id \in ProductIds : RemoveProduct(id)

SpecRecSerial == InitRec /\ [][NextRecSerial]_vars

\* ------------------------------------ the core operations, one at a time
\* customers of whom the first has a week of balances, the others one
\* purchase or none
InitCoreDb ==
    /\ role = [u \in Users |-> "customer"]
    /\ transactions = [u \in Users |-> IF u = 1 THEN HistoryOf(0..6)
                                        ELSE SegTxLists[((u - 1) % 2) + 1]]
    /\ cluster_id = [u \in Users |-> NULL]
    /\ clusters = {}

\* the sample catalog is in place, no index has been built
InitCoreRec ==
    /\ products = ProductIds
    /\ index_file = << >>
    /\ mapping_file = << >>
    /\ build_pc = "idle"
    /\ build_count = 0
    /\ product_ids = << >>
    /\ build_result = NoResult
    /\ rec_pc = "idle"
    /\ rec_index = << >>
    /\ rec_mapping = << >>
    /\ rec_args = NoArgs
    /\ rec_result = NoResult
    /\ filtered_products = {}
    /\ filtered_product_ids = {}
    /\ rec_search = << >>
    /\ last_build = << >>

InitCore ==
    /\ InitCoreDb
    /\ InitSegIdle
    /\ InitFcIdle
    /\ InitCoreRec
    /\ InitFeatIdle
    /\ InitGenIdle
    /\ InitCallIdle

\* no operation of the core is running
CoreQuiet ==
    /\ train_pc = "idle" /\ pred_pc = "idle"
    /\ fc_pc = "idle" /\ gen_pc = "idle"
    /\ build_pc = "idle" /\ rec_pc = "idle"

\* any sequence of the operations the services expose, each run to its end
\* before the next starts; forecasts are trained and generated for user 1,
\* predictions are made for user 3, and the index is rebuilt once
NextCore ==
    \/ CoreQuiet /\ TrainFit
    \/ TrainDump
    \/ TrainAssign
    \/ TrainCommit
    \/ TrainCommitFails
    \/ TrainDone
    \/ CoreQuiet /\ PredictLoad(3)
    \/ PredictCommit
    \/ PredictDone
    \/ CoreQuiet /\ TrainForecastPrepare(1)
    \/ TrainForecastFit
    \/ TrainForecastFitRaises
    \/ TrainForecastDump
    \/ TrainForecastDone
    \/ CoreQuiet /\ GenLoad(1, 1)
    \/ GenForecast
    \/ GenDone
    \/ CoreQuiet /\ build_count = 0 /\ BuildEmbed
    \/ BuildWriteIndex
    \/ BuildWriteMapping
    \/ BuildDone
    \/ CoreQuiet /\ RecLoadIndex
    \/ RecLoadMapping
    \/ RecSearchWith("Frugal Savers", {"increasing", "positive"}, MaxTopK)
    \/ RecDone

SpecCore == InitCore /\ [][NextCore]_vars

\* ------------------------------------------------------- get_user_context
\* the defaults of generate_forecast(days = 30) and get_recommendations(top_k = 5),
\* scaled to the horizons and list lengths explored here
DefaultDays == MaxHorizon
DefaultTopK == MaxTopK

\* self.cluster_names, and the name column of the clusters table
ClusterName(c) ==
    CASE c = 0 -> "Frugal Savers"
      [] c = 1 -> "Average Spenders"
      [] c = 2 -> "High-Value Transactors"
      [] c = 3 -> "New/Infrequent Users"

\* the text "No forecast available": it has no sentence of a generated summary
DefaultSummary ==
    [trend |-> "", by |-> 0, percent |-> Num(0), note |-> "No forecast available",
     below |-> NULL, days |-> NULL, parts |-> << >>]

\* the rule keywords that occur in one sentence of a generated summary:
\* "projected to {trend} by ..."; "Warning: ... may drop below $500 ...";
\* "Caution: ... may drop below $1,000 ..."; "... should remain stable above
\* $1,000."; "This is a positive trend ..."
SentenceKeywords(summary, part) ==
    CASE part = "projected" -> {summary.trend}
      [] part = "warning"   -> {"warning", "drop", "low"}
      [] part = "caution"   -> {"drop", "low"}
      [] part = "stable"    -> {"stable"}
      [] part = "positive"  -> {"positive"}

\* forecast_summary.lower() as the `word in forecast_lower` tests see it
Keywords(summary) ==
    UNION { SentenceKeywords(summary, summary.parts[i]) : i \in DOMAIN summary.parts }

\* lines 93-95: look the user's cluster row up
CtxStart(u) ==
    /\ ctx_pc = "idle"
    /\ ctx_user' = u
    /\ ctx_cluster_name' = IF cluster_id[u] # NULL /\ cluster_id[u] \in clusters
                           THEN ClusterName(cluster_id[u])
                           ELSE "Unknown"
    /\ ctx_pc' = "forecast"
    /\ UNCHANGED << ctx_forecast, ctx_summary, ctx_result, fcbVars,
                    segVars, fcVars, recVars, featVars, genVars >>

\* line 103: forecasting_service.generate_forecast(current_user.id, db)
CtxForecastLoad ==
    /\ ctx_pc = "forecast"
    /\ GenLoad(ctx_user, DefaultDays)

CtxForecast ==
    /\ ctx_pc = "forecast"
    /\ GenForecast

\* lines 103 and 106-107: the call returned; forecast.get("summary", ...)
CtxForecastReturned ==
    /\ ctx_pc = "forecast"
    /\ gen_pc = "returned"
    /\ ctx_forecast' = gen_result
    /\ ctx_summary' = IF gen_result.kind = "ok" THEN gen_result.summary ELSE DefaultSummary
    /\ ctx_pc' = "recommend"
    /\ gen_pc' = "idle"
    /\ gen_user' = NULL
    /\ gen_days' = NULL
    /\ gen_model' = << >>
    /\ gen_result' = NoResult
    /\ UNCHANGED << ctx_user, ctx_cluster_name, ctx_result, fcbVars,
                    segVars, fcVars, recVars, featVars >>

\* lines 108-110: recommendation_service.get_recommendations(current_user.id,
\* cluster_name, forecast_summary, db)
CtxRecommendLoadIndex ==
    /\ ctx_pc = "recommend"
    /\ RecLoadIndex

CtxRecommendLoadMapping ==
    /\ ctx_pc = "recommend"
    /\ RecLoadMapping

CtxRecommendSearch ==
    /\ ctx_pc = "recommend"
    /\ RecSearchWith(ctx_cluster_name, Keywords(ctx_summary), DefaultTopK)

\* lines 108-118: the call returned and the response is built, or it raised
\* and the exception leaves the handler, which has no try block
CtxReturn ==
    /\ ctx_pc = "recommend"
    /\ rec_pc = "returned"
    /\ ctx_result' = IF rec_result.kind = "exception"
                     THEN [kind |-> "exception", forecast |-> NoResult,
                           recommendations |-> << >>]
                     ELSE [kind |-> "ok", forecast |-> ctx_forecast,
                           recommendations |-> rec_result.items]
    /\ ctx_pc' = "returned"
    /\ UNCHANGED << ctx_user, ctx_cluster_name, ctx_forecast, ctx_summary, fcbVars,
                    segVars, fcVars, recVars, featVars, genVars >>

\* the response is sent; the next request may come
CtxDone ==
    /\ ctx_pc = "returned"
    /\ ctx_pc' = "idle"
    /\ ctx_user' = NULL
    /\ ctx_cluster_name' = ""
    /\ ctx_forecast' = NoResult
    /\ ctx_summary' = NoResult
    /\ ctx_result' = NoResult
    /\ rec_pc' = "idle"
    /\ rec_index' = << >>
    /\ rec_mapping' = << >>
    /\ rec_args' = NoArgs
    /\ filtered_products' = {}
    /\ filtered_product_ids' = {}
    /\ rec_search' = << >>
    /\ rec_result' = NoResult
    /\ UNCHANGED << last_build, products, index_file, mapping_file, build_pc, build_count,
                    product_ids, build_result, fcbVars, segVars, fcVars, featVars, genVars >>

\* a week of transactions, one a day, that leave the balance at b
RECURSIVE SteadyHistory(_, _)
SteadyHistory(D, b) ==
    IF D = {} THEN << >>
    ELSE LET d == SetMax(D)
         IN  << [date |-> d, category |-> "Market", debit |-> 10, credit |-> 10,
                 balance |-> b, time |-> 0] >> \o SteadyHistory(D \ {d}, b)

CtxUsers == {1, 2}

\* the database an earlier ingest, training and prediction left: user 1 has
\* one of the forecast histories and user 2 a steady balance of 1200; either
\* may have a segment, with or without the rows of the clusters table, and a
\* segment is there only after a segmentation model was saved
InitCtxDb ==
    /\ role = [u \in Users |-> "customer"]
    /\ \E D1 \in GenHistories :
          transactions = [u \in Users |-> IF u = 1 THEN HistoryOf(D1)
                                          ELSE IF u = 2 THEN SteadyHistory(0..6, 1200)
                                          ELSE << >>]
    /\ \E c1 \in {NULL, 0, 2}, c2 \in {NULL, 1} :
          cluster_id = [u \in Users |-> IF u = 1 THEN c1 ELSE IF u = 2 THEN c2 ELSE NULL]
    /\ clusters \in { {}, cluster_names }

InitCtxSeg ==
    /\ \E now \in NowDays :
          cluster_model_file =
              IF \E u \in Users : cluster_id[u] # NULL
              THEN << [run           |-> 1,
                       feature_names |-> Keys(extract_features(transactions[2], now))] >>
              ELSE << >>
    /\ train_pc = "idle"
    /\ train_run = IF cluster_model_file = << >> THEN 0 ELSE 1
    /\ user_ids = << >>
    /\ cluster_labels = << >>
    /\ X_keys = << >>
    /\ train_i = 0
    /\ pending = << >>
    /\ pending_clusters = {}
    /\ train_result = NoResult
    /\ pred_pc = "idle"
    /\ pred_user = NULL
    /\ pred_label = NULL
    /\ pred_keys = << >>
    /\ pred_result = NULL
    /\ pred_count = 0
    /\ read_view = "none"
    /\ assign_run = 0
    /\ expect_pre = << >>
    /\ expect_post = << >>

InitCtx ==
    /\ InitCtxDb
    /\ InitCtxSeg
    /\ InitFcIdle
    /\ InitCoreRec
    /\ InitFeatIdle
    /\ InitGenIdle
    /\ InitCallIdle

\* the handlers of one server process run one at a time
CtxQuiet ==
    /\ ctx_pc = "idle"
    /\ fc_pc = "idle"
    /\ build_pc = "idle"

\* requests for the user context, between forecast trainings and index builds
NextCtx ==
    \/ CtxQuiet /\ \E u \in CtxUsers : TrainForecastPrepare(u)
    \/ TrainForecastFit
    \/ TrainForecastFitRaises
    \/ TrainForecastDump
    \/ TrainForecastDone
    \/ CtxQuiet /\ BuildEmbed
    \/ BuildWriteIndex
    \/ BuildWriteMapping
    \/ BuildDone
    \/ CtxQuiet /\ \E u \in CtxUsers : CtxStart(u)
    \/ CtxForecastLoad
    \/ CtxForecast
    \/ CtxForecastReturned
    \/ CtxRecommendLoadIndex
    \/ CtxRecommendLoadMapping
    \/ CtxRecommendSearch
    \/ CtxReturn
    \/ CtxDone

SpecCtx == InitCtx /\ [][NextCtx]_vars

\* ------------------------------------------ _filter_products_by_rules harness
\* any catalog of the product rows, any segment name and summary
InitFilter ==
    /\ InitDb
    /\ InitSegIdle
    /\ InitFcIdle
    /\ InitFeatIdle
    /\ InitGenIdle
    /\ InitCallIdle
    /\ products \in SUBSET (1..Len(ProductRows))
    /\ rec_args \in [user_cluster : SegmentNames, forecast_summary : Summaries, top_k : {0}]
    /\ index_file = << >>
    /\ mapping_file = << >>
    /\ build_pc = "idle"
    /\ build_count = 0
    /\ product_ids = << >>
    /\ build_result = NoResult
    /\ rec_pc = "idle"
    /\ rec_index = << >>
    /\ rec_mapping = << >>
    /\ rec_result = NoResult
    /\ filtered_products = {}
    /\ filtered_product_ids = {}
    /\ rec_search = << >>
    /\ last_build = << >>

\* lines 92-97 and 110: filter the catalog, fall back to all of it
ApplyFilter ==
    /\ rec_result = NoResult
    /\ filtered_products' =
           _filter_products_by_rules(products, rec_args.user_cluster, rec_args.forecast_summary)
    /\ filtered_product_ids' =
           FilteredProductIds(products, rec_args.user_cluster, rec_args.forecast_summary)
    /\ rec_result' = [kind |-> "filtered"]
    /\ UNCHANGED << products, index_file, mapping_file, build_pc, build_count, product_ids,
                    build_result, rec_pc, rec_index, rec_mapping, rec_args, rec_search,
                    last_build, segVars, fcVars, featVars, genVars, callVars >>

NextFilter == ApplyFilter

SpecFilter == InitFilter /\ [][NextFilter]_vars

\* ===================================================================== claims

\* C1: a get_recommendations call that runs while build_product_embeddings is
\* writing never holds an index of one build with the mapping of another
\* build (a position of the index embeds one product and the mapping names
\* another for it, or none), nor an index whose mapping is not there yet.
C1_IndexAndMappingFromOneBuild ==
    /\ (rec_index # << >> /\ rec_mapping # << >>) =>
            rec_index[1].ids = rec_mapping[1].map
    /\ ~ (rec_pc = "returned" /\ rec_index # << >> /\ rec_mapping = << >>)


ModelRun == IF cluster_model_file = << >> THEN 0 ELSE cluster_model_file[1].run

TrainEnded == train_pc \in {"returned", "raised"}

\* C2: a reader of the segment assignments that runs while train_cluster_model
\* is running never reads a partially updated table: the rows it reads are
\* all the pre-training ones or all the post-training ones.
C2_ReadersSeeWholeTable == read_view # "mixed"

\* a read that fell inside the assignment loop, some rows set and others not yet
C2_Witness ==
    /\ read_view = "pre"
    /\ train_pc = "updating"
    /\ 1 <= Len(pending) /\ Len(pending) < Len(user_ids)
    /\ \E i \in DOMAIN pending : cluster_id[pending[i][1]] # pending[i][2]

\* C3: when train_cluster_model ends, by returning or by raising, either every
\* customer carries the label of this run or no assignment has changed.
C3_TrainAllOrNothing ==
    TrainEnded => (cluster_id = expect_post \/ cluster_id = expect_pre)

\* a run that returned its result and changed the table
C3_Witness ==
    /\ train_pc = "returned"
    /\ train_result.kind = "ok"
    /\ cluster_id = expect_post
    /\ expect_post # expect_pre

\* C4: after a failed training attempt the bundle on disk and the stored
\* assignments come from the same training run, and the failure is returned
\* as a structured error result.
C4_FailureIsStructuredAndConsistent ==
    (TrainEnded /\ train_result.kind # "ok") =>
        /\ train_result.kind = "error"
        /\ ModelRun = assign_run

\* C5: on a non-empty customer set train_cluster_model returns a success
\* result whose n_clusters is exactly 4.
C5_AlwaysFourClusters ==
    (TrainEnded /\ user_ids # << >>) =>
        /\ train_result.kind = "ok"
        /\ train_result.n_clusters = 4

\* C6: with no user of role customer, train_cluster_model returns the
\* data-insufficiency error, writes no bundle, and changes no assignment and
\* no row of the clusters table.
C6_NoCustomersNoEffect ==
    (TrainEnded /\ user_ids = << >>) =>
        /\ train_pc = "returned"
        /\ train_result.kind = "error"
        /\ train_result.error = "No customer data available"
        /\ cluster_model_file = << >>
        /\ pending = << >> /\ pending_clusters = {}
        /\ \A u \in Users : cluster_id[u] = NULL
        /\ clusters = {}

C6_Witness ==
    /\ train_pc = "returned"
    /\ user_ids = << >>
    /\ \A u \in Users : role[u] # "customer"
    /\ train_result.kind = "error"

\* C7: while no bundle has ever been dumped, predict_cluster returns cluster
\* index 3 for any user and leaves that user's stored assignment as it was.
C7_PredictUntrainedDefault ==
    (pred_pc = "returned" /\ cluster_model_file = << >>) =>
        /\ pred_result = 3
        /\ cluster_id[pred_user] = NULL

C7_Witness ==
    /\ pred_pc = "returned"
    /\ cluster_model_file = << >>
    /\ pred_result = 3
    /\ role[pred_user] = "customer"

\* C8: for a user with no transactions extract_features returns exactly
\* recency 365, frequency 0, monetary 0, average transaction 0, balance
\* volatility 0, weekday ratio 1/2 and the seven category shares 0.
C8_DefaultVector ==
    (feat_out # << >> /\ feat_in = << >>) =>
        feat_out = << <<"recency", [num |-> 365, den |-> 1]>>,
                      <<"frequency", [num |-> 0, den |-> 1]>>,
                      <<"monetary", [num |-> 0, den |-> 1]>>,
                      <<"avg_transaction", [num |-> 0, den |-> 1]>>,
                      <<"balance_std", [num |-> 0, den |-> 1]>>,
                      <<"weekday_ratio", [num |-> 1, den |-> 2]>>,
                      <<"spending_market", [num |-> 0, den |-> 1]>>,
                      <<"spending_transport", [num |-> 0, den |-> 1]>>,
                      <<"spending_coffe", [num |-> 0, den |-> 1]>>,
                      <<"spending_restuarant", [num |-> 0, den |-> 1]>>,
                      <<"spending_phone", [num |-> 0, den |-> 1]>>,
                      <<"spending_health", [num |-> 0, den |-> 1]>>,
                      <<"spending_learning", [num |-> 0, den |-> 1]>> >>

C8_Witness == feat_out # << >> /\ feat_in = << >>

\* C9: every feature dict has the same keys in the same order, whatever the
\* user and the transactions: the rows of the training matrix, the
\* feature_names stored in the bundle and the vector built by predict_cluster
\* agree in length and in the meaning of each position.
C9_FeatureKeysStable ==
    /\ \A i, j \in DOMAIN X_keys : X_keys[i] = X_keys[j]
    /\ (cluster_model_file # << >> /\ X_keys # << >>) =>
            cluster_model_file[1].feature_names = X_keys[1]
    /\ (cluster_model_file # << >> /\ pred_keys # << >>) =>
            pred_keys = cluster_model_file[1].feature_names

\* a prediction for a user with transactions against a bundle whose
\* feature_names were taken from a user without any, during a training run
\* whose matrix has rows of both kinds
C9_Witness ==
    /\ pred_pc = "predicted"
    /\ transactions[pred_user] # << >>
    /\ cluster_model_file # << >>
    /\ train_pc = "updating"
    /\ transactions[user_ids[1]] = << >>
    /\ \E i \in DOMAIN user_ids : transactions[user_ids[i]] # << >>

\* C10: train_forecast_model returns the insufficient-data error and writes no
\* model whenever the user's transactions fall on fewer than 7 distinct
\* calendar days, however far apart the first and the last are; a model file
\* exists only for users with at least 7 distinct days.
C10_FewDistinctDaysRefused ==
    /\ \A u \in Users :
          forecast_file[u] # << >> => Cardinality(TxDates(transactions[u])) >= 7
    /\ (fc_pc = "returned" /\ Cardinality(TxDates(transactions[fc_user])) < 7) =>
          /\ fc_result.kind = "error"
          /\ fc_result.error = "Insufficient data for forecasting"

\* C11: a generate_forecast call for a user whose balance series has fewer
\* than 7 days returns a data-insufficiency error result, whether or not a
\* model file exists: not a success, not an error of another kind.
C11_ShortHistoryIsDataInsufficiency ==
    (gen_pc = "returned" /\ Len(prepare_time_series(transactions[gen_user])) < 7) =>
        /\ gen_result.kind = "error"
        /\ gen_result.error \in {"Insufficient data for forecasting",
                                 "No transaction data available"}

C13_HorizonDatesFollowLastDay ==
    [][ (gen_pc = "loaded" /\ gen_pc' = "returned" /\ gen_result'.kind = "ok") =>
            /\ Len(gen_result'.dates) = gen_days
            /\ Len(gen_result'.values) = gen_days
            /\ \A i \in 1..gen_days :
                  gen_result'.dates[i] = SetMax(TxDates(transactions[gen_user])) + i ]_vars

\* a forecast of the longest horizon from a model fitted before the user's
\* latest transactions were loaded
C13_Witness ==
    /\ gen_pc = "returned"
    /\ gen_result.kind = "ok"
    /\ Len(gen_result.dates) = MaxHorizon
    /\ LET fitted_on == gen_model[1].fitted_on
       IN  gen_result.dates[1] > fitted_on[Len(fitted_on)].date + 1

\* C14: the trend of a forecast is "increasing" exactly when the last
\* projected value is strictly greater than the last observed balance, and
\* "decreasing" otherwise, equal values included.
C14_TrendStrict ==
    (gen_pc = "returned" /\ gen_result.kind = "ok") =>
        LET final == gen_result.values[Len(gen_result.values)]
        IN  /\ gen_result.trend \in {"increasing", "decreasing"}
            /\ gen_result.trend = "increasing" <=> final > gen_result.current_balance
            /\ gen_result.predicted_balance = final

\* the last projected value equals the last observed balance
C14_Witness ==
    /\ gen_pc = "returned"
    /\ gen_result.kind = "ok"
    /\ gen_result.values[Len(gen_result.values)] = gen_result.current_balance
    /\ gen_result.trend = "decreasing"
    /\ LET daily == prepare_time_series(transactions[gen_user])
       IN  gen_result.current_balance = daily[Len(daily)].balance

\* C15: when some projected value is below 500 the summary names the 500
\* threshold with the 1-based position of the first such value and not the
\* 1000 threshold; it names the 1000 threshold, with the position of the
\* first value below 1000, exactly when some value is below 1000 and none is
\* below 500.
C15_TightestThresholdReported ==
    (gen_pc = "returned" /\ gen_result.kind = "ok") =>
        LET v        == gen_result.values
            s        == gen_result.summary
            first(t) == CHOOSE i \in DOMAIN v :
                            v[i] < t /\ \A j \in 1..(i - 1) : v[j] >= t
            some(t)  == \E i \in DOMAIN v : v[i] < t
        IN  /\ some(500) => (s.below = 500 /\ s.days = first(500))
            /\ s.below = 1000 <=> (some(1000) /\ ~ some(500))
            /\ s.below = 1000 => s.days = first(1000)

\* C16: for a non-empty transaction list the balance series has one entry
\* per calendar day from the first to the last transaction date, in
\* increasing order without gaps; the value of a day is the balance of the
\* day's last transaction, and a day without transactions has the value of
\* the nearest earlier day that has one.
C16_SeriesDailyLastForwardFilled ==
    (fc_pc # "idle" /\ transactions[fc_user] # << >>) =>
        LET txs == transactions[fc_user]
            D   == TxDates(txs)
            lo  == CHOOSE d \in D : \A e \in D : d <= e
            hi  == CHOOSE d \in D : \A e \in D : e <= d
        IN  /\ Len(daily_balance) = hi - lo + 1
            /\ \A i \in DOMAIN daily_balance :
                  /\ daily_balance[i].date = lo + i - 1
                  /\ \E k \in DOMAIN txs :
                        /\ txs[k].date \in D /\ txs[k].date <= daily_balance[i].date
                        /\ \A e \in D : e <= daily_balance[i].date => e <= txs[k].date
                        /\ \A j \in DOMAIN txs :
                              txs[j].date = txs[k].date => txs[j].time <= txs[k].time
                        /\ daily_balance[i].balance = txs[k].balance

\* a series with a filled day and a day that has two transactions
C16_Witness ==
    /\ fc_pc = "prepared"
    /\ Len(daily_balance) > Cardinality(TxDates(transactions[fc_user]))
    /\ \E j, k \in DOMAIN transactions[fc_user] :
          /\ j < k
          /\ transactions[fc_user][j].date = transactions[fc_user][k].date
          /\ transactions[fc_user][j].balance # transactions[fc_user][k].balance

\* C17: get_recommendations returns an empty list, without raising, when the
\* index file, the mapping file or both are absent.
C17_MissingArtifactsGiveEmptyList ==
    (rec_pc = "returned" /\ (rec_index = << >> \/ rec_mapping = << >>)) =>
        rec_result = [kind |-> "ok", items |-> << >>]

\* C18: build_product_embeddings on an empty products table returns the
\* no-products error result and leaves the index file and the mapping file
\* as they were.
C18_EmptyCatalogKeepsArtifacts ==
    [][ (build_pc = "idle" /\ build_pc' # "idle" /\ products = {}) =>
            /\ build_pc' = "returned"
            /\ build_result'.kind = "error"
            /\ build_result'.error = "No products available"
            /\ index_file' = index_file
            /\ mapping_file' = mapping_file ]_vars

\* a build on the emptied catalog after an earlier build persisted both files
C18_Witness ==
    /\ build_pc = "returned"
    /\ build_result.kind = "error"
    /\ products = {}
    /\ index_file # << >>
    /\ mapping_file # << >>

\* C19: a get_recommendations call that returns a list returns at most top_k
\* items, for every top_k >= 0, and each item is a product of the catalog the
\* index was built from.
C19_AtMostTopKFromCatalog ==
    (rec_pc = "returned" /\ rec_result.kind = "ok" /\ rec_mapping # << >>) =>
        /\ Len(rec_result.items) <= rec_args.top_k
        /\ \A i \in DOMAIN rec_result.items :
              \E p \in DOMAIN rec_mapping[1].map :
                  rec_mapping[1].map[p] = rec_result.items[i]

\* C20: a product passes the rule filter exactly when one of the four signals
\* hits: needs-credit (a decline or warning keyword in the summary and a
\* credit-type tag), has-surplus (a growth or stability keyword and a
\* savings-type tag), the segment's tag keywords, or the target-segment
\* hint; each forecast signal is judged on its own.
C20_AnySignalPasses ==
    [][ (rec_pc = "loaded" /\ rec_pc' = "returned") =>
            \A id \in products :
                LET tags    == Product(id).tags
                    summary == rec_args'.forecast_summary
                    segment == rec_args'.user_cluster
                    credit  == /\ summary \cap {"decreasing", "drop", "low", "warning"} # {}
                               /\ tags \cap {"credit", "loan", "budgeting"} # {}
                    surplus == /\ summary \cap {"increasing", "positive", "stable"} # {}
                               /\ tags \cap {"investment", "savings", "high-yield"} # {}
                    segtag  == \/ /\ segment = "Frugal Savers"
                                  /\ tags \cap {"low-fee", "savings", "conservative"} # {}
                               \/ /\ segment = "High-Value Transactors"
                                  /\ tags \cap {"premium", "rewards", "high-limit"} # {}
                               \/ /\ segment = "Average Spenders"
                                  /\ tags \cap {"standard", "balanced", "everyday"} # {}
                    hint    == /\ Product(id).target_cluster # ""
                               /\ Lower(segment) = Product(id).target_cluster
                IN  id \in filtered_products' <=> (credit \/ surplus \/ segtag \/ hint) ]_vars

\* C21: when the rule filter selects no product, the candidate set of the
\* call is the whole catalog; so with top_k >= 1 and an index that holds a
\* product of the catalog the returned list is not empty.
C21_EmptyFilterFallsBack ==
    [][ (rec_pc = "loaded" /\ rec_pc' = "returned" /\ filtered_products' = {}) =>
            /\ filtered_product_ids' = products
            /\ ( /\ rec_args'.top_k >= 1
                 /\ rec_result'.kind = "ok"
                 /\ \E p \in DOMAIN rec_mapping[1].map : rec_mapping[1].map[p] \in products )
               => rec_result'.items # << >> ]_vars

\* a call whose filter selected nothing and that returned products
C21_Witness ==
    /\ rec_pc = "returned"
    /\ rec_args.top_k >= 1
    /\ filtered_products = {}
    /\ filtered_product_ids = products
    /\ rec_result.kind = "ok"
    /\ rec_result.items # << >>

\* C22 as stated: for "Frugal Savers" and "stable, positive outlook", on a
\* catalog where no product has a tag among low-fee, savings, conservative
\* and no target_cluster matches, the filter selects nothing and the
\* candidate set is the whole catalog.
C22_FrugalStableFallsBack ==
    ( /\ rec_result.kind = "filtered"
      /\ rec_args.user_cluster = "Frugal Savers"
      /\ rec_args.forecast_summary = {"stable", "positive"}
      /\ \A id \in products :
            /\ Product(id).tags \cap {"low-fee", "savings", "conservative"} = {}
            /\ Product(id).target_cluster # "frugal savers" )
    => (filtered_products = {} /\ filtered_product_ids = products)

\* C22 as amended: the same, on a catalog where in addition no product has a
\* tag among investment and high-yield (the has-surplus signal, which the
\* words "stable" and "positive" switch on, then hits no product either).
C22_FrugalStableFallsBackAmended ==
    ( /\ rec_result.kind = "filtered"
      /\ rec_args.user_cluster = "Frugal Savers"
      /\ rec_args.forecast_summary = {"stable", "positive"}
      /\ \A id \in products :
            /\ Product(id).tags \cap {"low-fee", "savings", "conservative"} = {}
            /\ Product(id).tags \cap {"investment", "high-yield"} = {}
            /\ Product(id).target_cluster # "frugal savers" )
    => (filtered_products = {} /\ filtered_product_ids = products)

\* a catalog of several such products, the credit card among them
C22_Witness ==
    /\ rec_result.kind = "filtered"
    /\ rec_args.user_cluster = "Frugal Savers"
    /\ rec_args.forecast_summary = {"stable", "positive"}
    /\ Cardinality(products) >= 3
    /\ 2 \in products
    /\ \A id \in products :
          /\ Product(id).tags \cap {"low-fee", "savings", "conservative"} = {}
          /\ Product(id).tags \cap {"investment", "high-yield"} = {}
          /\ Product(id).target_cluster # "frugal savers"
    /\ filtered_product_ids = products

\* C23: the returned list holds only products of the candidate set, in the
\* order of the search result (non-increasing score), and it is made of the
\* min(top_k, number of indexed candidates) best-ranked candidates.
C23_TopCandidatesInScoreOrder ==
    (rec_pc = "returned" /\ rec_result.kind = "ok" /\ rec_search # << >>) =>
        LET map    == rec_mapping[1].map
            items  == rec_result.items
            C      == { i \in DOMAIN rec_search :
                          /\ rec_search[i].idx # -1
                          /\ rec_search[i].idx + 1 \in DOMAIN map
                          /\ map[rec_search[i].idx + 1] \in filtered_product_ids }
            n      == IF rec_args.top_k < Cardinality(C) THEN rec_args.top_k
                      ELSE Cardinality(C)
            top    == { i \in C : Cardinality({ j \in C : j < i }) < n }
        IN  /\ \A i, j \in DOMAIN rec_search :
                  i < j => rec_search[i].score >= rec_search[j].score
            /\ Len(items) = n
            /\ \A k \in 1..Len(items) :
                  \E i \in top : /\ Cardinality({ j \in top : j < i }) = k - 1
                                 /\ items[k] = map[rec_search[i].idx + 1]

C30_StaleIndexIsSafe ==
    (rec_pc = "returned") =>
        /\ rec_result.kind = "ok"
        /\ \A i \in DOMAIN rec_result.items : rec_result.items[i] \in products

\* C25: over any sequence of the core operations, a user's segment assignment
\* is absent while no segmentation model was ever persisted, is never cleared
\* once set, always holds an index in 0..3, and changes only in the commit of
\* train_segmentation or of a predict_segment that loaded a persisted model;
\* forecast training, forecast generation, index rebuild and recommend leave
\* every assignment as it is.
C25_AssignmentLifecycle ==
    [][ \A u \in Users :
          /\ cluster_id[u] \in {NULL} \cup 0..3
          /\ cluster_id'[u] \in {NULL} \cup 0..3
          /\ cluster_model_file = << >> => cluster_id[u] = NULL
          /\ cluster_id[u] # NULL => cluster_id'[u] # NULL
          /\ cluster_id'[u] # cluster_id[u] =>
                /\ cluster_model_file # << >>
                /\ \/ train_pc = "updating" /\ train_pc' = "returned"
                      /\ train_result'.kind = "ok"
                   \/ pred_pc = "predicted" /\ pred_pc' = "returned"
                      /\ pred_user = u
          /\ (fc_pc # "idle" \/ gen_pc # "idle" \/ build_pc # "idle" \/ rec_pc # "idle")
                => cluster_id'[u] = cluster_id[u] ]_vars

\* training labelled the customers, a prediction then gave user 3 a segment
\* other than the default one, and after a forecast model was trained and the
\* index rebuilt a recommendation is being served
C25_Witness ==
    /\ assign_run > 0
    /\ pred_count > 0
    /\ cluster_id[3] \in 0..2
    /\ \A u \in Users : cluster_id[u] # NULL
    /\ forecast_file[1] # << >>
    /\ index_file # << >>
    /\ rec_result.kind = "ok"

\* C26: when train_forecast_model runs concurrently for two different users on
\* the shared service object, a model file changes only in the call made for
\* its user, and the model written is the one fitted on that user's own
\* balance series.
C26_ConcurrentTrainingKeepsUsersApart ==
    [][ \A u \in Users :
          forecast_file'[u] # forecast_file[u] =>
              /\ \/ fc_pc = "fitted" /\ fc_pc' = "returned" /\ fc_user = u
                 \/ fcb_pc = "fitted" /\ fcb_pc' = "returned" /\ fcb_user = u
              /\ forecast_file'[u] =
                     << [fitted_on |-> prepare_time_series(transactions[u])] >> ]_vars

\* C28: every forecast summary holds exactly one of the four outcome
\* statements (the below-500 warning, the below-1000 caution, the stable
\* statement, the positive-trend statement); the positive-trend statement is
\* there exactly when the trend is increasing, and then no threshold is
\* reported, whatever the projected values are.
C28_OneOutcomeStatement ==
    (gen_pc = "returned" /\ gen_result.kind = "ok") =>
        LET s        == gen_result.summary
            outcomes == { i \in DOMAIN s.parts :
                            s.parts[i] \in {"warning", "caution", "stable", "positive"} }
        IN  /\ Cardinality(outcomes) = 1
            /\ ("positive" \in Range(s.parts)) <=> (gen_result.trend = "increasing")
            /\ gen_result.trend = "increasing" =>
                   /\ Range(s.parts) \cap {"warning", "caution"} = {}
                   /\ s.below = NULL
                   /\ s.days = NULL

\* an increasing forecast with a projected value below 500 was summarised
C28_Witness ==
    /\ gen_pc = "returned"
    /\ gen_result.kind = "ok"
    /\ gen_result.trend = "increasing"
    /\ \E i \in DOMAIN gen_result.values : gen_result.values[i] < 500
    /\ gen_result.summary.parts = << "projected", "positive" >>

\* C27: composing the user context succeeds for every user in every state of
\* the persisted artifacts: without a forecast model the forecast field
\* carries the error result and the summary handed to recommend is "No
\* forecast available", without an assignment the segment name is "Unknown",
\* and with or without a recommendation index the response is built and its
\* recommendations are a list, possibly empty.
C27_ContextAlwaysComposes ==
    ctx_pc = "returned" =>
        /\ ctx_result.kind = "ok"
        /\ ctx_result.forecast = ctx_forecast
        /\ ctx_result.recommendations \in Seq(ProductIds)
        /\ ctx_forecast.kind = "error" => ctx_summary = DefaultSummary
        /\ cluster_id[ctx_user] = NULL => ctx_cluster_name = "Unknown"

\* C29: for every summary the forecast engine generates, the rule filter's
\* needs-credit signal is true exactly when the trend is decreasing and its
\* has-surplus signal is applied exactly when the trend is increasing, so the
\* products that pass are those that pass for the bare trend word; a
\* decreasing forecast that "should remain stable above $1,000" passes no
\* product by its savings or investment tags alone.
C29_SignalsFollowTrend ==
    (ctx_pc = "recommend" /\ rec_pc = "returned" /\ rec_result.kind = "ok"
       /\ rec_args # NoArgs /\ ctx_forecast.kind = "ok") =>
        LET kw           == rec_args.forecast_summary
            needs_credit == kw \cap {"decreasing", "drop", "low", "warning"} # {}
            has_surplus  == kw \cap {"increasing", "positive", "stable"} # {}
            applied      == ~ needs_credit /\ has_surplus
        IN  /\ kw = Keywords(ctx_forecast.summary)
            /\ needs_credit <=> ctx_forecast.trend = "decreasing"
            /\ applied <=> ctx_forecast.trend = "increasing"
            /\ filtered_products =
                   _filter_products_by_rules(products, ctx_cluster_name, {ctx_forecast.trend})
            /\ (ctx_forecast.trend = "decreasing" /\ ctx_forecast.summary.note = "stable") =>
                   \A id \in filtered_products :
                       \/ Product(id).tags \cap {"credit", "loan", "budgeting"} # {}
                       \/ id \in _filter_products_by_rules(products, ctx_cluster_name, {})

\* the context of a user without a segment was composed from a decreasing
\* forecast whose summary says the balance should remain stable above $1,000,
\* and a savings product of the catalog did not pass the filter
C29_Witness ==
    /\ ctx_pc = "recommend"
    /\ rec_pc = "returned"
    /\ rec_result.kind = "ok"
    /\ ctx_forecast.kind = "ok"
    /\ ctx_forecast.trend = "decreasing"
    /\ ctx_forecast.summary.note = "stable"
    /\ rec_args.forecast_summary = {"decreasing", "stable"}
    /\ \E id \in products \ filtered_products :
          Product(id).tags \cap {"investment", "savings", "high-yield"} # {}
====
